---- MODULE Spec2Model ----
(***************************************************************************)
(* A state-machine model of the Quantum Chess rules engine                 *)
(* (src/src/game/rules.rs): the Rules object (superpositions,              *)
(* entanglements, game_result, quantum_rules) together with the Board it   *)
(* mutates, and one action per QuantumMove kind accepted by                *)
(* Rules::execute_move; of the amplitude store and the registry of         *)
(* src/src/quantum/mod.rs; of the probability model of                     *)
(* src/src/quantum/probability.rs; and of the players and the status of    *)
(* GameState (src/src/game/state.rs).                                      *)
(***************************************************************************)
EXTENDS Integers, Sequences, FiniteSets, TLC

VARIABLES
    pieces,          \* Board: the piece standing on each square (NoPiece when empty)
    quantum,         \* Board: the quantum mark of each square
    superpositions,  \* Rules.superpositions: HashSet<Superposition>
    entanglements,   \* Rules.entanglements: Vec<Entanglement>
    game_result,     \* Rules.game_result
    quantum_rules,   \* Rules.quantum_rules
    in_flight,       \* the piece each active Superposition carries
    result,          \* the MoveResult returned by the last execute_move call
    applied,         \* the last QuantumMove that execute_move accepted
    calls,           \* number of calls made so far
    states,          \* the registry HashMap<Uuid, QuantumState> of quantum/mod.rs
    last_call,       \* the last call made outside execute_move, and what it returned
    game             \* GameState: status, players, total_stake, result_description

vars == <<pieces, quantum, superpositions, entanglements, game_result,
          quantum_rules, in_flight, result, applied, calls, states, last_call,
          game>>

\* The variables of the rules engine and its board.
rulesVars == <<pieces, quantum, superpositions, entanglements, game_result,
               quantum_rules, in_flight, result, applied>>

(***************************************************************************)
(* Bounds of the model.                                                    *)
(***************************************************************************)
\* Number of execute_move calls explored from each initial position.
MaxCalls == 3

\* Number of calls to the quantum state store explored from each initial state.
MaxStoreCalls == 3

\* Number of Entangle requests one player submits in a row.
MaxEntangleCalls == 4

\* Number of Split and Measure requests explored from each position with
\* kings to split.
MaxSplitCalls == 2

\* Number of add_player and end_game calls made on one GameState.
MaxGameCalls == 4

(***************************************************************************)
(* Program constants.                                                      *)
(***************************************************************************)
\* The board is scanned with `for y in 0..8 { for x in 0..8`.
BOARD_SIZE == 8
\* pub const MAX_SUPERPOSITIONS: usize = 4;
MAX_SUPERPOSITIONS == 4
\* EntanglementRule.max_pairs_per_player of QuantumRules::default().
DEFAULT_MAX_PAIRS == 3

(***************************************************************************)
(* Value types.                                                            *)
(***************************************************************************)
Coords == 0 .. (BOARD_SIZE - 1)

\* Position { x, y } as rules.rs uses it.
Position(x, y) == [x |-> x, y |-> y]

AllPositions == {Position(x, y) : x \in Coords, y \in Coords}

PieceType == {"Pawn", "Knight", "Bishop", "Rook", "Queen", "King"}

\* Piece { piece_type, color }; color is a bool, TRUE for White.
Piece(t, c) == [piece_type |-> t, color |-> c]

\* Option<Piece>::None, as returned by Board::get_piece for an empty square.
NoPiece == [piece_type |-> "None", color |-> FALSE]

\* The quantum marks Board::set_quantum_state / clear_quantum_state leave.
QuantumStateMark == {"None", "Superposition", "Entangled"}

\* enum GameResult.
GameResult == {"WhiteWins", "BlackWins", "Draw", "InProgress"}

\* Superposition { position1, position2, probability }; the probability is
\* kept in hundredths (60 stands for 0.6).
Superposition(p1, p2, prob) == [position1 |-> p1, position2 |-> p2, probability |-> prob]

\* Entanglement { position1, position2 }.
Entanglement(p1, p2) == [position1 |-> p1, position2 |-> p2]

Abs(n) == IF n < 0 THEN -n ELSE n

Signum(n) == IF n < 0 THEN -1 ELSE IF n > 0 THEN 1 ELSE 0

Min(a, b) == IF a < b THEN a ELSE b

Max(a, b) == IF a > b THEN a ELSE b

(***************************************************************************)
(* Board operations used by rules.rs.  A board value is a record           *)
(* [pieces, quantum].                                                      *)
(***************************************************************************)
Board(p, q) == [pieces |-> p, quantum |-> q]

\* Index of a square in the scan `for y in 0..8 { for x in 0..8`; the board
\* keeps one cell per index.
ScanIndex(pos) == pos.y * BOARD_SIZE + pos.x

Cells == 0 .. (BOARD_SIZE * BOARD_SIZE - 1)

get_piece(board, pos) == board.pieces[ScanIndex(pos)]

is_some(optPiece) == optPiece # NoPiece

set_piece(board, pos, piece) == [board EXCEPT !.pieces[ScanIndex(pos)] = piece]

remove_piece(board, pos) == [board EXCEPT !.pieces[ScanIndex(pos)] = NoPiece]

set_quantum_state(board, pos, mark) == [board EXCEPT !.quantum[ScanIndex(pos)] = mark]

clear_quantum_state(board, pos) == [board EXCEPT !.quantum[ScanIndex(pos)] = "None"]

(***************************************************************************)
(* QuantumRules::default().                                                *)
(***************************************************************************)
DefaultQuantumRules ==
    [superposition |->
        [max_per_player |-> MAX_SUPERPOSITIONS,
         min_probability |-> 20,
         allow_king_superposition |-> FALSE,
         allow_while_in_check |-> FALSE],
     entanglement |->
        [max_pairs_per_player |-> DEFAULT_MAX_PAIRS,
         allowed_piece_types |-> {"Knight", "Bishop", "Queen"},
         allow_different_piece_types |-> TRUE,
         allow_opponent_entanglement |-> FALSE],
     capture_measurement_probability |-> 50,
     allow_quantum_moves_in_check |-> FALSE]

(***************************************************************************)
(* Classical move validation.                                              *)
(***************************************************************************)
is_valid_pawn_move(board, piece, from, to) == TRUE

is_valid_knight_move(board, piece, from, to) ==
    LET dx == Abs(to.x - from.x)
        dy == Abs(to.y - from.y)
    IN  (dx = 2 /\ dy = 1) \/ (dx = 1 /\ dy = 2)

\* The while loop of is_diagonal_path_clear, entered at (x, y).
RECURSIVE DiagonalScan(_, _, _, _, _, _)
DiagonalScan(board, x, y, dx, dy, to) ==
    IF x # to.x \/ y # to.y
    THEN IF is_some(get_piece(board, Position(x, y)))
         THEN FALSE
         ELSE DiagonalScan(board, x + dx, y + dy, dx, dy, to)
    ELSE TRUE

is_diagonal_path_clear(board, from, to) ==
    LET dx == Signum(to.x - from.x)
        dy == Signum(to.y - from.y)
    IN  DiagonalScan(board, from.x + dx, from.y + dy, dx, dy, to)

\* The squares the while loop of is_diagonal_path_clear hands to
\* board.get_piece, entered at (x, y): it returns at the first occupied one.
RECURSIVE DiagonalInspected(_, _, _, _, _, _)
DiagonalInspected(board, x, y, dx, dy, to) ==
    IF x # to.x \/ y # to.y
    THEN {Position(x, y)} \cup
         (IF is_some(get_piece(board, Position(x, y)))
          THEN {}
          ELSE DiagonalInspected(board, x + dx, y + dy, dx, dy, to))
    ELSE {}

\* A faulty variant of is_straight_path_clear whose ranges stop one square
\* early (start .. end - 1 instead of start .. end).
is_straight_path_clear_StopsEarly(board, from, to) ==
    IF from.x = to.x
    THEN LET start == Min(from.y, to.y) + 1
             end == Max(from.y, to.y)
         IN  \A y \in start .. (end - 2) : ~is_some(get_piece(board, Position(from.x, y)))
    ELSE LET start == Min(from.x, to.x) + 1
             end == Max(from.x, to.x)
         IN  \A x \in start .. (end - 2) : ~is_some(get_piece(board, Position(x, from.y)))

is_straight_path_clear(board, from, to) ==
    IF from.x = to.x
    THEN LET start == Min(from.y, to.y) + 1
             end == Max(from.y, to.y)
         IN  \A y \in start .. (end - 1) : ~is_some(get_piece(board, Position(from.x, y)))
    ELSE LET start == Min(from.x, to.x) + 1
             end == Max(from.x, to.x)
         IN  \A x \in start .. (end - 1) : ~is_some(get_piece(board, Position(x, from.y)))

\* The squares is_straight_path_clear hands to board.get_piece: its for loop
\* runs over start .. end - 1 and returns at the first occupied square.
StraightInspected(board, from, to) ==
    IF from.x = to.x
    THEN LET start == Min(from.y, to.y) + 1
             end == Max(from.y, to.y)
         IN  {Position(from.x, y) : y \in
                 {y \in start .. (end - 1) :
                     \A earlier \in start .. (y - 1) :
                         ~is_some(get_piece(board, Position(from.x, earlier)))}}
    ELSE LET start == Min(from.x, to.x) + 1
             end == Max(from.x, to.x)
         IN  {Position(x, from.y) : x \in
                 {x \in start .. (end - 1) :
                     \A earlier \in start .. (x - 1) :
                         ~is_some(get_piece(board, Position(earlier, from.y)))}}

is_valid_bishop_move(board, piece, from, to) ==
    LET dx == Abs(to.x - from.x)
        dy == Abs(to.y - from.y)
    IN  IF dx # dy THEN FALSE ELSE is_diagonal_path_clear(board, from, to)

is_valid_rook_move(board, piece, from, to) ==
    IF from.x # to.x /\ from.y # to.y
    THEN FALSE
    ELSE is_straight_path_clear(board, from, to)

is_valid_queen_move(board, piece, from, to) ==
    is_valid_rook_move(board, piece, from, to) \/ is_valid_bishop_move(board, piece, from, to)

is_valid_king_move(board, piece, from, to) ==
    LET dx == Abs(to.x - from.x)
        dy == Abs(to.y - from.y)
    IN  dx <= 1 /\ dy <= 1

is_valid_classical_move(board, piece, from, to) ==
    IF is_some(get_piece(board, to)) /\ get_piece(board, to).color = piece.color
    THEN FALSE
    ELSE CASE piece.piece_type = "Pawn" -> is_valid_pawn_move(board, piece, from, to)
           [] piece.piece_type = "Knight" -> is_valid_knight_move(board, piece, from, to)
           [] piece.piece_type = "Bishop" -> is_valid_bishop_move(board, piece, from, to)
           [] piece.piece_type = "Rook" -> is_valid_rook_move(board, piece, from, to)
           [] piece.piece_type = "Queen" -> is_valid_queen_move(board, piece, from, to)
           [] piece.piece_type = "King" -> is_valid_king_move(board, piece, from, to)

\* The squares the path check of a bishop, rook or queen move inspects. The
\* queen tries the rook's check first and the bishop's only if that fails;
\* a destination holding a piece of the mover's colour returns before any.
PathInspected(board, piece, from, to) ==
    LET diagonal == IF Abs(to.x - from.x) # Abs(to.y - from.y)
                    THEN {}
                    ELSE DiagonalInspected(board, from.x + Signum(to.x - from.x),
                                           from.y + Signum(to.y - from.y),
                                           Signum(to.x - from.x),
                                           Signum(to.y - from.y), to)
        straight == IF from.x # to.x /\ from.y # to.y
                    THEN {}
                    ELSE StraightInspected(board, from, to)
    IN  IF is_some(get_piece(board, to)) /\ get_piece(board, to).color = piece.color
        THEN {}
        ELSE CASE piece.piece_type = "Bishop" -> diagonal
               [] piece.piece_type = "Rook" -> straight
               [] piece.piece_type = "Queen" ->
                     IF is_valid_rook_move(board, piece, from, to)
                     THEN straight
                     ELSE straight \cup diagonal
               [] OTHER -> {}

(***************************************************************************)
(* Quantum move validation.                                                *)
(***************************************************************************)
\* A faulty variant of is_valid_split_move that is content with one legal
\* target; C8 tells it from the code.
is_valid_split_move_EitherTarget(sups, rules, board, piece, from, to_primary, to_secondary) ==
    IF piece.piece_type = "King" /\ ~rules.superposition.allow_king_superposition
    THEN FALSE
    ELSE \/ is_valid_classical_move(board, piece, from, to_primary)
         \/ is_valid_classical_move(board, piece, from, to_secondary)

\* The pieces standing on the squares of `sups` are read from `board`.
\* A faulty variant of is_valid_split_move without the king restriction.
is_valid_split_move_KingsAllowed(sups, rules, board, piece, from, to_primary, to_secondary) ==
    LET player_superpositions ==
            Cardinality({s \in sups :
                \/ (is_some(get_piece(board, s.position1))
                        /\ get_piece(board, s.position1).color = piece.color)
                \/ (is_some(get_piece(board, s.position2))
                        /\ get_piece(board, s.position2).color = piece.color)})
    IN  IF player_superpositions >= rules.superposition.max_per_player
        THEN FALSE
        ELSE /\ is_valid_classical_move(board, piece, from, to_primary)
             /\ is_valid_classical_move(board, piece, from, to_secondary)

is_valid_split_move(sups, rules, board, piece, from, to_primary, to_secondary) ==
    LET player_superpositions ==
            Cardinality({s \in sups :
                \/ (is_some(get_piece(board, s.position1))
                        /\ get_piece(board, s.position1).color = piece.color)
                \/ (is_some(get_piece(board, s.position2))
                        /\ get_piece(board, s.position2).color = piece.color)})
    IN  IF player_superpositions >= rules.superposition.max_per_player
        THEN FALSE
        ELSE IF piece.piece_type = "King" /\ ~rules.superposition.allow_king_superposition
        THEN FALSE
        ELSE /\ is_valid_classical_move(board, piece, from, to_primary)
             /\ is_valid_classical_move(board, piece, from, to_secondary)

\* A faulty variant of MergeMatches that knows the superposition only in the
\* order the request names its squares; C10 tells it from the code.
MergeMatches_GivenOrderOnly(s, from_primary, from_secondary) ==
    s.position1 = from_primary /\ s.position2 = from_secondary

\* The predicate of the `any` / `find` closures of the Merge code.
MergeMatches(s, from_primary, from_secondary) ==
    \/ (s.position1 = from_primary /\ s.position2 = from_secondary)
    \/ (s.position1 = from_secondary /\ s.position2 = from_primary)

is_valid_merge_move(sups, board, piece, from_primary, from_secondary, to) ==
    LET superposition_exists == \E s \in sups : MergeMatches(s, from_primary, from_secondary)
    IN  IF ~superposition_exists
        THEN FALSE
        ELSE /\ is_valid_classical_move(board, piece, from_primary, to)
             /\ is_valid_classical_move(board, piece, from_secondary, to)

\* A faulty variant of is_valid_entangle_move that looks up only the first
\* piece's type in the allowed set; C12 tells it from the code.
is_valid_entangle_move_FirstTypeOnly(rules, board, piece1, position1, piece2, position2) ==
    IF piece1.color # piece2.color /\ ~rules.entanglement.allow_opponent_entanglement
    THEN FALSE
    ELSE IF piece1.piece_type # piece2.piece_type
            /\ ~rules.entanglement.allow_different_piece_types
    THEN FALSE
    ELSE piece1.piece_type \in rules.entanglement.allowed_piece_types

is_valid_entangle_move(rules, board, piece1, position1, piece2, position2) ==
    IF piece1.color # piece2.color /\ ~rules.entanglement.allow_opponent_entanglement
    THEN FALSE
    ELSE IF piece1.piece_type # piece2.piece_type
            /\ ~rules.entanglement.allow_different_piece_types
    THEN FALSE
    ELSE /\ piece1.piece_type \in rules.entanglement.allowed_piece_types
         /\ piece2.piece_type \in rules.entanglement.allowed_piece_types

(***************************************************************************)
(* Check, checkmate, stalemate, insufficient material.                     *)
(***************************************************************************)
IsKingOf(board, pos, is_white) == get_piece(board, pos) = Piece("King", is_white)

\* The square the scan `for y in 0..8 { for x in 0..8` visits at step i.
PositionAt(i) == Position(i % BOARD_SIZE, i \div BOARD_SIZE)

is_king_in_check(sups, board, is_white) ==
    LET kings == {i \in Cells : board.pieces[i] = Piece("King", is_white)}
    IN  IF kings = {}
        THEN FALSE
        ELSE LET king_position ==
                     PositionAt(CHOOSE i \in kings : \A j \in kings : i <= j)
                 king_positions ==
                     {king_position} \cup
                     UNION {{s.position1, s.position2} : s \in
                              {t \in sups : \/ IsKingOf(board, t.position1, is_white)
                                            \/ IsKingOf(board, t.position2, is_white)}}
                 attackers ==
                     {i \in Cells :
                        is_some(board.pieces[i]) /\ board.pieces[i].color # is_white}
             IN  \E king_pos \in king_positions : \E i \in attackers :
                     is_valid_classical_move(board, board.pieces[i], PositionAt(i), king_pos)

has_any_legal_move(sups, rules, board, is_white) ==
    \E i \in Cells :
        /\ is_some(board.pieces[i])
        /\ board.pieces[i].color = is_white
        /\ \E dest \in AllPositions :
              /\ is_valid_classical_move(board, board.pieces[i], PositionAt(i), dest)
              /\ LET temp_board ==
                         set_piece(remove_piece(board, PositionAt(i)), dest, board.pieces[i])
                 IN  ~is_king_in_check(sups, temp_board, is_white)

is_checkmate(sups, rules, board, is_white) ==
    IF ~is_king_in_check(sups, board, is_white)
    THEN FALSE
    ELSE ~has_any_legal_move(sups, rules, board, is_white)

is_stalemate(sups, rules, board, is_white) ==
    IF is_king_in_check(sups, board, is_white)
    THEN FALSE
    ELSE ~has_any_legal_move(sups, rules, board, is_white)

CountPieces(board, t, c) == Cardinality({i \in Cells : board.pieces[i] = Piece(t, c)})

\* A faulty variant of is_draw_by_insufficient_material that also counts
\* king and bishop against king and bishop as a draw.
is_draw_by_insufficient_material_BishopPair(board) ==
    LET white_knights == CountPieces(board, "Knight", TRUE)
        white_bishops == CountPieces(board, "Bishop", TRUE)
        black_knights == CountPieces(board, "Knight", FALSE)
        black_bishops == CountPieces(board, "Bishop", FALSE)
        other_pieces ==
            Cardinality({i \in Cells :
                /\ is_some(board.pieces[i])
                /\ board.pieces[i].piece_type \notin {"King", "Knight", "Bishop"}})
    IN  IF other_pieces = 0 /\ white_knights = 0 /\ white_bishops = 0
           /\ black_knights = 0 /\ black_bishops = 0
        THEN TRUE
        ELSE IF other_pieces = 0
                /\ \/ (white_knights = 0 /\ white_bishops = 1
                          /\ black_knights = 0 /\ black_bishops = 0)
                   \/ (white_knights = 1 /\ white_bishops = 0
                          /\ black_knights = 0 /\ black_bishops = 0)
                   \/ (black_knights = 0 /\ black_bishops = 1
                          /\ white_knights = 0 /\ white_bishops = 0)
                   \/ (black_knights = 1 /\ black_bishops = 0
                          /\ white_knights = 0 /\ white_bishops = 0)
        THEN TRUE
        ELSE other_pieces = 0 /\ white_knights = 0 /\ black_knights = 0
             /\ white_bishops = 1 /\ black_bishops = 1

is_draw_by_insufficient_material(board) ==
    LET white_knights == CountPieces(board, "Knight", TRUE)
        white_bishops == CountPieces(board, "Bishop", TRUE)
        black_knights == CountPieces(board, "Knight", FALSE)
        black_bishops == CountPieces(board, "Bishop", FALSE)
        other_pieces ==
            Cardinality({i \in Cells :
                /\ is_some(board.pieces[i])
                /\ board.pieces[i].piece_type \notin {"King", "Knight", "Bishop"}})
    IN  IF other_pieces = 0 /\ white_knights = 0 /\ white_bishops = 0
           /\ black_knights = 0 /\ black_bishops = 0
        THEN TRUE
        ELSE IF other_pieces = 0
                /\ \/ (white_knights = 0 /\ white_bishops = 1
                          /\ black_knights = 0 /\ black_bishops = 0)
                   \/ (white_knights = 1 /\ white_bishops = 0
                          /\ black_knights = 0 /\ black_bishops = 0)
                   \/ (black_knights = 0 /\ black_bishops = 1
                          /\ white_knights = 0 /\ white_bishops = 0)
                   \/ (black_knights = 1 /\ black_bishops = 0
                          /\ white_knights = 0 /\ white_bishops = 0)
        THEN TRUE
        ELSE FALSE

\* Rules::update_game_state on engine state `gr` (the game_result before the
\* call): the pair of the game_result afterwards and the MoveResult returned.
update_game_state(sups, rules, gr, board) ==
    LET white_in_check == is_king_in_check(sups, board, TRUE)
        black_in_check == is_king_in_check(sups, board, FALSE)
    IN  IF white_in_check /\ is_checkmate(sups, rules, board, TRUE)
        THEN [game_result |-> "BlackWins", returned |-> "GameOver"]
        ELSE IF black_in_check /\ is_checkmate(sups, rules, board, FALSE)
        THEN [game_result |-> "WhiteWins", returned |-> "GameOver"]
        ELSE IF \/ (~white_in_check /\ is_stalemate(sups, rules, board, TRUE))
                \/ (~black_in_check /\ is_stalemate(sups, rules, board, FALSE))
        THEN [game_result |-> "Draw", returned |-> "GameOver"]
        ELSE IF is_draw_by_insufficient_material(board)
        THEN [game_result |-> "Draw", returned |-> "GameOver"]
        ELSE [game_result |-> gr, returned |-> "Success"]

(***************************************************************************)
(* Rules::execute_move.  An engine state is a record                       *)
(* [board, superpositions, entanglements, game_result, in_flight]; every   *)
(* Execute* operator yields the set of outcomes the call can have, each    *)
(* the engine state afterwards together with the MoveResult `returned`.    *)
(* The set has more than one element only where the code draws a random    *)
(* number or depends on the iteration order of the HashSet.                *)
(***************************************************************************)
Outcome(st, returned) ==
    [board |-> st.board, superpositions |-> st.superpositions,
     entanglements |-> st.entanglements, game_result |-> st.game_result,
     in_flight |-> st.in_flight, returned |-> returned]

\* The function `f` without the argument `s`.
Without(f, s) == [t \in (DOMAIN f) \ {s} |-> f[t]]

ExecuteClassical(st, rules, piece, from, to) ==
    IF ~is_valid_classical_move(st.board, piece, from, to)
    THEN {Outcome(st, "InvalidMove")}
    ELSE LET board1 == set_piece(remove_piece(st.board, from), to, piece)
             ugs == update_game_state(st.superpositions, rules, st.game_result, board1)
         IN  {Outcome([st EXCEPT !.board = board1, !.game_result = ugs.game_result],
                      "Success")}

\* A faulty variant of ExecuteSplit that takes the piece off `from` before it
\* validates the request; C1 tells it from the code.
ExecuteSplit_RemovesBeforeValidating(st, rules, piece, from, to_primary, to_secondary, probability) ==
    LET board1 == remove_piece(st.board, from)
    IN  IF ~is_valid_split_move(st.superpositions, rules, st.board, piece, from,
                                to_primary, to_secondary)
        THEN {Outcome([st EXCEPT !.board = board1], "InvalidMove")}
        ELSE LET superposition == Superposition(to_primary, to_secondary, probability)
                 board2 == set_quantum_state(board1, to_primary, "Superposition")
                 board3 == set_quantum_state(board2, to_secondary, "Superposition")
             IN  {Outcome([st EXCEPT
                              !.board = board3,
                              !.superpositions = st.superpositions \cup {superposition},
                              !.in_flight = IF superposition \in st.superpositions
                                            THEN st.in_flight
                                            ELSE (superposition :> piece) @@ st.in_flight],
                          "Success")}

\* A faulty variant of ExecuteSplit that puts the piece on the primary target
\* at once; C7 tells it from the code.
ExecuteSplit_PlacesPieceOnPrimary(st, rules, piece, from, to_primary, to_secondary, probability) ==
    IF ~is_valid_split_move(st.superpositions, rules, st.board, piece, from,
                            to_primary, to_secondary)
    THEN {Outcome(st, "InvalidMove")}
    ELSE LET superposition == Superposition(to_primary, to_secondary, probability)
             board1 == set_piece(remove_piece(st.board, from), to_primary, piece)
             board2 == set_quantum_state(board1, to_primary, "Superposition")
             board3 == set_quantum_state(board2, to_secondary, "Superposition")
         IN  {Outcome([st EXCEPT
                          !.board = board3,
                          !.superpositions = st.superpositions \cup {superposition},
                          !.in_flight = IF superposition \in st.superpositions
                                        THEN st.in_flight
                                        ELSE (superposition :> piece) @@ st.in_flight],
                      "Success")}

ExecuteSplit(st, rules, piece, from, to_primary, to_secondary, probability) ==
    IF ~is_valid_split_move(st.superpositions, rules, st.board, piece, from,
                            to_primary, to_secondary)
    THEN {Outcome(st, "InvalidMove")}
    ELSE LET superposition == Superposition(to_primary, to_secondary, probability)
             board1 == remove_piece(st.board, from)
             board2 == set_quantum_state(board1, to_primary, "Superposition")
             board3 == set_quantum_state(board2, to_secondary, "Superposition")
         IN  {Outcome([st EXCEPT
                          !.board = board3,
                          !.superpositions = st.superpositions \cup {superposition},
                          !.in_flight = IF superposition \in st.superpositions
                                        THEN st.in_flight
                                        ELSE (superposition :> piece) @@ st.in_flight],
                      "Success")}

\* A faulty variant of ExecuteMerge that drops every superposition over the two
\* source squares instead of the one `find` returns; C11 tells it from the code.
ExecuteMerge_RemovesAllMatching(st, rules, piece, from_primary, from_secondary, to) ==
    IF ~is_valid_merge_move(st.superpositions, st.board, piece, from_primary,
                            from_secondary, to)
    THEN {Outcome(st, "InvalidMove")}
    ELSE LET matching == {s \in st.superpositions :
                            MergeMatches(s, from_primary, from_secondary)}
             board1 == clear_quantum_state(st.board, from_primary)
             board2 == clear_quantum_state(board1, from_secondary)
             board3 == set_piece(board2, to, piece)
         IN  {Outcome([st EXCEPT
                          !.board = board3,
                          !.superpositions = st.superpositions \ matching,
                          !.in_flight = [t \in (DOMAIN st.in_flight) \ matching |->
                                            st.in_flight[t]]],
                      "Success")}

ExecuteMerge(st, rules, piece, from_primary, from_secondary, to) ==
    IF ~is_valid_merge_move(st.superpositions, st.board, piece, from_primary,
                            from_secondary, to)
    THEN {Outcome(st, "InvalidMove")}
    ELSE {LET board1 == clear_quantum_state(st.board, from_primary)
              board2 == clear_quantum_state(board1, from_secondary)
              board3 == set_piece(board2, to, piece)
          IN  Outcome([st EXCEPT
                          !.board = board3,
                          !.superpositions = st.superpositions \ {superposition},
                          !.in_flight = Without(st.in_flight, superposition)],
                      "Success")
          : superposition \in
              {s \in st.superpositions : MergeMatches(s, from_primary, from_secondary)}}

ExecuteEntangle(st, rules, piece1, position1, piece2, position2) ==
    IF ~is_valid_entangle_move(rules, st.board, piece1, position1, piece2, position2)
    THEN {Outcome(st, "InvalidMove")}
    ELSE LET entanglement == Entanglement(position1, position2)
             board1 == set_quantum_state(st.board, position1, "Entangled")
             board2 == set_quantum_state(board1, position2, "Entangled")
         IN  {Outcome([st EXCEPT
                          !.board = board2,
                          !.entanglements = Append(st.entanglements, entanglement)],
                      "Success")}

\* The squares `rand::random::<f32>() < superposition.probability` can choose:
\* the draw lies in [0, 1).
MeasurementOutcomes(superposition) ==
    (IF superposition.probability > 0 THEN {superposition.position1} ELSE {})
    \cup (IF superposition.probability < 100 THEN {superposition.position2} ELSE {})

\* The body of one match arm of collapse_quantum_state: the superposition is
\* resolved to `square`.
ApplyOutcome(st, superposition, square) ==
    LET board1 == clear_quantum_state(st.board, superposition.position1)
        board2 == clear_quantum_state(board1, superposition.position2)
        board3 == IF superposition \in DOMAIN st.in_flight
                  THEN set_piece(board2, square, st.in_flight[superposition])
                  ELSE board2
    IN  [st EXCEPT !.board = board3,
                   !.superpositions = st.superpositions \ {superposition},
                   !.in_flight = Without(st.in_flight, superposition)]

\* The loop of collapse_quantum_state resolving every superposition, whether
\* it lies on `position` or not.
RECURSIVE CollapseLoop_EverySuperposition(_, _, _)
CollapseLoop_EverySuperposition(st, todo, position) ==
    IF todo = {}
    THEN {st}
    ELSE UNION {
            UNION {CollapseLoop_EverySuperposition(ApplyOutcome(st, superposition, square),
                                                   todo \ {superposition}, position)
                   : square \in MeasurementOutcomes(superposition)}
            : superposition \in todo}

\* The loop `for superposition in self.superpositions.clone()` over the
\* elements `todo` not yet visited, in any iteration order.
RECURSIVE CollapseLoop(_, _, _)
CollapseLoop(st, todo, position) ==
    IF todo = {}
    THEN {st}
    ELSE UNION {
            IF superposition.position1 = position \/ superposition.position2 = position
            THEN UNION {CollapseLoop(ApplyOutcome(st, superposition, square),
                                     todo \ {superposition}, position)
                        : square \in MeasurementOutcomes(superposition)}
            ELSE CollapseLoop(st, todo \ {superposition}, position)
            : superposition \in todo}

collapse_quantum_state(st, position) == CollapseLoop(st, st.superpositions, position)

\* `for position in positions { self.collapse_quantum_state(board, &position) }`
RECURSIVE MeasureLoop(_, _)
MeasureLoop(st, positions) ==
    IF positions = <<>>
    THEN {st}
    ELSE UNION {MeasureLoop(st1, Tail(positions))
                : st1 \in collapse_quantum_state(st, Head(positions))}

ExecuteMeasure(st, rules, positions) ==
    {LET ugs == update_game_state(st1.superpositions, rules, st1.game_result, st1.board)
     IN  Outcome([st1 EXCEPT !.game_result = ugs.game_result], "Success")
     : st1 \in MeasureLoop(st, positions)}

(***************************************************************************)
(* The position played from, and the move requests submitted.              *)
(***************************************************************************)
WhiteKnight == Piece("Knight", TRUE)

BlackKnight == Piece("Knight", FALSE)

WhiteKing == Piece("King", TRUE)

BlackKing == Piece("King", FALSE)

WhiteBishop == Piece("Bishop", TRUE)

a1 == Position(0, 0)

c2 == Position(2, 1)

c3 == Position(2, 2)

b3 == Position(1, 2)

b5 == Position(1, 4)

d4 == Position(3, 3)

\* Black king a1, white king c2, white knights c3 and d4: Black is not in
\* check and every square next to the black king is covered.
InitialPieces ==
    [i \in Cells |->
        CASE i = ScanIndex(a1) -> BlackKing
          [] i = ScanIndex(c2) -> WhiteKing
          [] i = ScanIndex(c3) -> WhiteKnight
          [] i = ScanIndex(d4) -> WhiteKnight
          [] OTHER -> NoPiece]

\* A configuration passed to Rules::with_quantum_rules: one superposition per
\* player, kings may be split.
SmallCapQuantumRules ==
    [DefaultQuantumRules EXCEPT !.superposition.max_per_player = 1,
                                !.superposition.allow_king_superposition = TRUE]

\* The pieces, squares and probabilities move requests are drawn from.
InputPieces == {WhiteKnight, BlackKnight}

InputSquares == {d4, b3, b5}

EntangleSquares == {d4, b3}

\* Entangle requests also name a bishop: a second allowed piece type.
EntangleInputPieces == InputPieces \cup {WhiteBishop}

Probabilities == {60, 100}

\* Measure requests: the empty list, each single square, and one list of two.
MeasureInputs == {<<>>} \cup {<<p>> : p \in InputSquares} \cup {<<b3, b5>>}

NoMove == [kind |-> "None"]

\* HashMap::new(): a registry holding no QuantumState.
NoStates == [id \in {} |-> {}]

\* No call has been made to the quantum state store or the probability model.
NoCall == [op |-> "None"]

Engine == [board |-> Board(pieces, quantum), superpositions |-> superpositions,
           entanglements |-> entanglements, game_result |-> game_result,
           in_flight |-> in_flight]

\* execute_move returned outcome `o` for the request `move`.
Commit(o, move) ==
    /\ pieces' = o.board.pieces
    /\ quantum' = o.board.quantum
    /\ superpositions' = o.superpositions
    /\ entanglements' = o.entanglements
    /\ game_result' = o.game_result
    /\ in_flight' = o.in_flight
    /\ result' = o.returned
    /\ applied' = IF o.returned = "InvalidMove" THEN applied ELSE move
    /\ calls' = calls + 1
    /\ UNCHANGED <<quantum_rules, states, last_call, game>>

(***************************************************************************)
(* GameState (state.rs): the status, the two player slots, the stake and   *)
(* the result description. The other fields (id, board, histories,         *)
(* timestamps, the counters of PlayerInfo, all zero when a player joins)   *)
(* are read or written by neither add_player nor end_game.                 *)
(***************************************************************************)
GameStatus == {"Waiting", "InProgress", "Completed", "Draw", "Abandoned"}

Color == {"White", "Black"}

\* Option::None for a colour or a description.
None == "None"

PlayerInfo(wallet_address, color, stake_amount) ==
    [wallet_address |-> wallet_address, color |-> color, stake_amount |-> stake_amount]

\* Option::None for a player slot.
NoPlayer == PlayerInfo("None", "None", 0)

Ok(value) == [ok |-> TRUE, value |-> value]

Err(message) == [ok |-> FALSE, value |-> message]

\* GameState::new().
GameState_new ==
    [status |-> "Waiting", white_player |-> NoPlayer, black_player |-> NoPlayer,
     total_stake |-> 0, result_description |-> None]

\* The colour add_player settles on, or the error it returns: the arms of
\* its match in their order.
add_player_color(state, color_preference) ==
    LET white_open == state.white_player = NoPlayer
        black_open == state.black_player = NoPlayer
    IN  IF color_preference = "White" /\ white_open THEN Ok("White")
        ELSE IF color_preference = "Black" /\ black_open THEN Ok("Black")
        ELSE IF color_preference = "White" /\ ~white_open /\ black_open
        THEN Err("White player already exists")
        ELSE IF color_preference = "Black" /\ white_open /\ ~black_open
        THEN Err("Black player already exists")
        ELSE IF color_preference = None /\ white_open THEN Ok("White")
        ELSE IF color_preference = None /\ ~white_open /\ black_open THEN Ok("Black")
        ELSE Err("Game is full")

\* A faulty variant of add_player that starts the game with the first player.
add_player_StartsAtOnce(state, wallet_address, stake_amount, color_preference) ==
    LET color == add_player_color(state, color_preference)
    IN  IF ~color.ok
        THEN [state |-> state, returned |-> color]
        ELSE LET player_info == PlayerInfo(wallet_address, color.value, stake_amount)
                 seated == IF color.value = "White"
                           THEN [state EXCEPT !.white_player = player_info]
                           ELSE [state EXCEPT !.black_player = player_info]
                 staked == [seated EXCEPT !.total_stake = @ + stake_amount]
             IN  [state |-> [staked EXCEPT !.status = "InProgress"],
                  returned |-> color]

\* GameState::add_player: the GameState afterwards and the Result returned.
add_player(state, wallet_address, stake_amount, color_preference) ==
    LET color == add_player_color(state, color_preference)
    IN  IF ~color.ok
        THEN [state |-> state, returned |-> color]
        ELSE LET player_info == PlayerInfo(wallet_address, color.value, stake_amount)
                 seated == IF color.value = "White"
                           THEN [state EXCEPT !.white_player = player_info]
                           ELSE [state EXCEPT !.black_player = player_info]
                 staked == [seated EXCEPT !.total_stake = @ + stake_amount]
             IN  [state |-> IF staked.white_player # NoPlayer /\ staked.black_player # NoPlayer
                            THEN [staked EXCEPT !.status = "InProgress"]
                            ELSE staked,
                  returned |-> color]

is_game_over(state) == state.status \in {"Completed", "Draw", "Abandoned"}

\* GameState::end_game.
end_game(state, winner, description) ==
    [state EXCEPT !.status = IF winner # None THEN "Completed" ELSE "Draw",
                  !.result_description = description]

\* The engine as `rules` configures it, handed a board holding `placed`,
\* before the first execute_move call.
ConstructedOn(placed, rules) ==
    /\ pieces = placed
    /\ quantum = [i \in Cells |-> "None"]
    /\ superpositions = {}
    /\ entanglements = <<>>
    /\ game_result = "InProgress"
    /\ quantum_rules = rules
    /\ in_flight = [s \in {} |-> NoPiece]
    /\ result = "None"
    /\ applied = NoMove
    /\ calls = 0
    /\ game = GameState_new

\* The engine as `rules` configures it on the board of InitialPieces.
Constructed(rules) == ConstructedOn(InitialPieces, rules)

\* The quantum state store holds no state and has not been called.
StoreIdle == states = NoStates /\ last_call = NoCall

\* Rules::new().
Init == Constructed(DefaultQuantumRules) /\ StoreIdle

\* Rules::with_quantum_rules(SmallCapQuantumRules).
InitWithQuantumRules == Constructed(SmallCapQuantumRules) /\ StoreIdle

ClassicalMove ==
    /\ calls < MaxCalls
    /\ \E piece \in InputPieces, from \in InputSquares, to \in InputSquares :
          \E o \in ExecuteClassical(Engine, quantum_rules, piece, from, to) :
              Commit(o, [kind |-> "Classical", piece |-> piece, from |-> from, to |-> to])

SplitMove ==
    /\ calls < MaxCalls
    /\ \E piece \in InputPieces, from \in InputSquares, to_primary \in InputSquares,
          probability \in Probabilities :
          \E to_secondary \in InputSquares \ {to_primary} :
          \E o \in ExecuteSplit(Engine, quantum_rules, piece, from, to_primary,
                                to_secondary, probability) :
              Commit(o, [kind |-> "Split", piece |-> piece, from |-> from,
                         to_primary |-> to_primary, to_secondary |-> to_secondary,
                         probability |-> probability])

MergeMove ==
    /\ calls < MaxCalls
    /\ \E piece \in InputPieces, from_primary \in InputSquares,
          from_secondary \in InputSquares, to \in InputSquares :
          \E o \in ExecuteMerge(Engine, quantum_rules, piece, from_primary,
                                from_secondary, to) :
              Commit(o, [kind |-> "Merge", piece |-> piece, from_primary |-> from_primary,
                         from_secondary |-> from_secondary, to |-> to])

EntangleMove ==
    /\ calls < MaxCalls
    /\ \E piece1 \in EntangleInputPieces, position1 \in EntangleSquares,
          piece2 \in EntangleInputPieces :
          \E position2 \in EntangleSquares \ {position1} :
          \E o \in ExecuteEntangle(Engine, quantum_rules, piece1, position1,
                                   piece2, position2) :
              Commit(o, [kind |-> "Entangle", piece1 |-> piece1, position1 |-> position1,
                         piece2 |-> piece2, position2 |-> position2])

MeasureMove ==
    /\ calls < MaxCalls
    /\ \E positions \in MeasureInputs :
          \E o \in ExecuteMeasure(Engine, quantum_rules, positions) :
              Commit(o, [kind |-> "Measure", positions |-> positions])

Next == ClassicalMove \/ SplitMove \/ MergeMove \/ EntangleMove \/ MeasureMove

Spec == Init /\ [][Next]_vars

SpecWithQuantumRules == InitWithQuantumRules /\ [][Next]_vars

(***************************************************************************)
(* White alone submits Entangle requests, one after the other.             *)
(***************************************************************************)
\* The pieces White names as the second piece of its Entangle requests; the
\* first is a knight.
WhiteEntanglePieces == {WhiteKnight, WhiteBishop}

\* The squares of those requests: the two white knights' and two empty ones.
WhiteEntangleSquares == {d4, c3, b3, b5}

\* Rules::new().
InitEntangle == Constructed(DefaultQuantumRules) /\ StoreIdle

EntangleAgain ==
    /\ calls < MaxEntangleCalls
    /\ \E piece1 \in {WhiteKnight}, position1 \in WhiteEntangleSquares,
          piece2 \in WhiteEntanglePieces :
          \E position2 \in WhiteEntangleSquares \ {position1} :
          \E o \in ExecuteEntangle(Engine, quantum_rules, piece1, position1,
                                   piece2, position2) :
              Commit(o, [kind |-> "Entangle", piece1 |-> piece1, position1 |-> position1,
                         piece2 |-> piece2, position2 |-> position2])

NextEntangle == EntangleAgain

SpecEntangle == InitEntangle /\ [][NextEntangle]_vars

(***************************************************************************)
(* The quantum state store, quantum/mod.rs.  f64 values are kept in fixed  *)
(* point: a probability in millionths, a component of a Complex64          *)
(* amplitude in thousandths, so that norm_sqr of an amplitude is a         *)
(* probability in millionths.                                              *)
(***************************************************************************)
\* 1.0 as a component of an amplitude: Complex64::new(1.0, 0.0).
AMP_ONE == 1000

\* 1.0 as a probability.
PROB_ONE == AMP_ONE * AMP_ONE

Complex64(re, im) == [re |-> re, im |-> im]

norm_sqr(amp) == amp.re * amp.re + amp.im * amp.im

ComplexAdd(a, b) == Complex64(a.re + b.re, a.im + b.im)

\* a / b for b > 0, rounded to the nearest unit.
DivRound(a, b) ==
    IF a >= 0 THEN (2 * a + b) \div (2 * b) ELSE -((2 * (-a) + b) \div (2 * b))

ComplexMul(a, b) ==
    Complex64(DivRound(a.re * b.re - a.im * b.im, AMP_ONE),
              DivRound(a.re * b.im + a.im * b.re, AMP_ONE))

conj(a) == Complex64(a.re, -a.im)

\* The largest r in lo .. hi with r * r <= n.
RECURSIVE SqrtBetween(_, _, _)
SqrtBetween(n, lo, hi) ==
    IF lo >= hi
    THEN lo
    ELSE LET mid == (lo + hi + 1) \div 2
         IN  IF mid * mid <= n
             THEN SqrtBetween(n, mid, hi)
             ELSE SqrtBetween(n, lo, mid - 1)

\* f64::sqrt of n >= 0, rounded to the nearest unit: of a probability
\* (millionths) it is an amplitude component (thousandths).  n stays below
\* 100 * PROB_ONE.
sqrt(n) ==
    LET r == SqrtBetween(n, 0, IF n < 10 * AMP_ONE THEN n ELSE 10 * AMP_ONE)
    IN  IF n - r * r > r THEN r + 1 ELSE r

RECURSIVE SumSeq(_)
SumSeq(seq) == IF seq = <<>> THEN 0 ELSE Head(seq) + SumSeq(Tail(seq))

\* ChessPosition { notation, row, col }.
ChessPosition(notation, row, col) == [notation |-> notation, row |-> row, col |-> col]

\* enum EntanglementType; Custom carries its correlation in thousandths.
Bell == [kind |-> "Bell"]

WState == [kind |-> "WState"]

GHZ == [kind |-> "GHZ"]

Custom(correlation) == [kind |-> "Custom", correlation |-> correlation]

\* struct QuantumState: `entanglements` is a function from the partners' ids
\* to the EntanglementType.
QuantumState(amplitudes, basis_states, ents) ==
    [amplitudes |-> amplitudes, basis_states |-> basis_states, entanglements |-> ents]

NoEntanglements == [id \in {} |-> Bell]

\* The state every measurement leaves: one basis state with amplitude 1.
Collapsed(state, position) ==
    [state EXCEPT !.amplitudes = <<Complex64(AMP_ONE, 0)>>, !.basis_states = <<position>>]

new(position) == QuantumState(<<Complex64(AMP_ONE, 0)>>, <<position>>, NoEntanglements)

\* superposition without the comparison of the two lengths.
superposition_NoLengthCheck(positions, probabilities) ==
    IF positions = <<>>
    THEN [ok |-> FALSE, err |-> "Cannot create superposition with empty positions"]
    ELSE IF Abs(SumSeq(probabilities) - PROB_ONE) > PROB_ONE \div 1000000
    THEN [ok |-> FALSE, err |-> "Probabilities must sum to 1.0"]
    ELSE [ok |-> TRUE,
          state |-> QuantumState([i \in 1 .. Len(positions) |->
                                     IF i <= Len(probabilities)
                                     THEN Complex64(sqrt(probabilities[i]), 0)
                                     ELSE Complex64(0, 0)],
                                 positions, NoEntanglements)]

\* QuantumState::superposition: the Result, with the state built when Ok.
\* Probabilities are not negative here (the square root of a negative f64 is NaN).
superposition(positions, probabilities) ==
    IF positions = <<>>
    THEN [ok |-> FALSE, err |-> "Cannot create superposition with empty positions"]
    ELSE IF Len(positions) # Len(probabilities)
    THEN [ok |-> FALSE, err |-> "Positions and probabilities must have the same length"]
    ELSE IF Abs(SumSeq(probabilities) - PROB_ONE) > PROB_ONE \div 1000000
    THEN [ok |-> FALSE, err |-> "Probabilities must sum to 1.0"]
    ELSE [ok |-> TRUE,
          state |-> QuantumState([i \in 1 .. Len(positions) |->
                                     Complex64(sqrt(probabilities[i]), 0)],
                                 positions, NoEntanglements)]

entangle(state, piece_id, entanglement_type) ==
    [state EXCEPT !.entanglements =
        [id \in (DOMAIN state.entanglements) \cup {piece_id} |->
            IF id = piece_id THEN entanglement_type ELSE state.entanglements[id]]]

disentangle(state, piece_id) ==
    [state EXCEPT !.entanglements =
        [id \in (DOMAIN state.entanglements) \ {piece_id} |-> state.entanglements[id]]]

is_entangled_with(state, piece_id) == piece_id \in DOMAIN state.entanglements

entangled_pieces(state) == DOMAIN state.entanglements

\* The f64 probabilities of the basis states, by index.
probabilities(state) ==
    [i \in 1 .. Len(state.amplitudes) |-> norm_sqr(state.amplitudes[i])]

\* WeightedIndex::new(weights) is Ok: some weight, none negative, not all zero.
WeightedIndexOk(weights) ==
    /\ weights # <<>>
    /\ \A i \in DOMAIN weights : weights[i] >= 0
    /\ SumSeq(weights) > 0

\* The indices WeightedIndex can sample.
WeightedIndexSamples(weights) == {i \in DOMAIN weights : weights[i] > 0}

\* The value of a call that panicked (unwrap of an Err).
Panic == [panic |-> TRUE]

\* QuantumState::measure: the outcomes [state, returned] of one call.
measure(state) ==
    LET probs == probabilities(state)
    IN  IF ~WeightedIndexOk(probs)
        THEN {[state |-> state, returned |-> Panic]}
        ELSE {[state |-> Collapsed(state, state.basis_states[idx]),
               returned |-> state.basis_states[idx]]
              : idx \in WeightedIndexSamples(probs)}

\* A norm below 0.1 is computed in hundred-thousandths, so that the division
\* keeps the precision the f64 has.
normalize(state) ==
    LET norm_squared == SumSeq(probabilities(state))
        fine == IF norm_squared < PROB_ONE \div 100 THEN 100 ELSE 1
        norm == sqrt(norm_squared * fine * fine)
    IN  IF norm > 0
        THEN [state EXCEPT !.amplitudes =
                [i \in 1 .. Len(state.amplitudes) |->
                    Complex64(DivRound(state.amplitudes[i].re * AMP_ONE * fine, norm),
                              DivRound(state.amplitudes[i].im * AMP_ONE * fine, norm))]]
        ELSE state

\* The index of `position` in basis_states (0 when absent).
IndexOf(state, position) ==
    IF \E i \in DOMAIN state.basis_states : state.basis_states[i] = position
    THEN CHOOSE i \in DOMAIN state.basis_states :
            /\ state.basis_states[i] = position
            /\ \A j \in DOMAIN state.basis_states : state.basis_states[j] = position => i <= j
    ELSE 0

add_position(state, position, amplitude) ==
    LET idx == IndexOf(state, position)
    IN  IF idx # 0
        THEN normalize([state EXCEPT !.amplitudes[idx] =
                            ComplexAdd(state.amplitudes[idx], amplitude)])
        ELSE normalize([state EXCEPT !.basis_states = Append(state.basis_states, position),
                                     !.amplitudes = Append(state.amplitudes, amplitude)])

\* apply_interference taking an absent position2 for position1 itself.
apply_interference_AbsentSecondAsFirst(state, position1, position2, phase_factor) ==
    LET i == IndexOf(state, position1)
        j == IF IndexOf(state, position2) # 0 THEN IndexOf(state, position2) ELSE i
    IN  IF i # 0
        THEN LET amp1 == state.amplitudes[i]
                 amp2 == state.amplitudes[j]
                 state1 == [state EXCEPT !.amplitudes[i] =
                               ComplexAdd(amp1, ComplexMul(phase_factor, amp2))]
                 state2 == [state1 EXCEPT !.amplitudes[j] =
                               ComplexAdd(amp2, ComplexMul(conj(phase_factor), amp1))]
             IN  [ok |-> TRUE, state |-> normalize(state2)]
        ELSE [ok |-> FALSE, state |-> state]

\* apply_interference: the Result, with the state left when Ok.  phase_factor
\* is Complex64::new(phase.cos(), phase.sin()).
apply_interference(state, position1, position2, phase_factor) ==
    LET i == IndexOf(state, position1)
        j == IndexOf(state, position2)
    IN  IF i # 0 /\ j # 0
        THEN LET amp1 == state.amplitudes[i]
                 amp2 == state.amplitudes[j]
                 state1 == [state EXCEPT !.amplitudes[i] =
                               ComplexAdd(amp1, ComplexMul(phase_factor, amp2))]
                 state2 == [state1 EXCEPT !.amplitudes[j] =
                               ComplexAdd(amp2, ComplexMul(conj(phase_factor), amp1))]
             IN  [ok |-> TRUE, state |-> normalize(state2)]
        ELSE [ok |-> FALSE, state |-> state]

\* modify_probabilities: the vectors `probs` can become; the GHZ arm draws
\* all_or_none from 0 .. 1.
modify_probabilities(probs, entangled_state, entanglement_type) ==
    LET entangled_probs == probabilities(entangled_state)
    IN  CASE entanglement_type.kind = "Bell" ->
                {[i \in DOMAIN probs |->
                    IF i <= Len(entangled_probs)
                    THEN (probs[i] + entangled_probs[i]) \div 2
                    ELSE probs[i]]}
          [] entanglement_type.kind = "WState" ->
                {[i \in DOMAIN probs |->
                    IF i <= Len(entangled_state.basis_states)
                    THEN (probs[i] * 12) \div 10
                    ELSE probs[i]]}
          [] entanglement_type.kind = "GHZ" ->
                {[i \in DOMAIN probs |-> IF i = 1 THEN probs[i] * 2 ELSE probs[i]],
                 [i \in DOMAIN probs |-> IF i > 1 THEN (probs[i] * 15) \div 10 ELSE probs[i]]}
          [] entanglement_type.kind = "Custom" ->
                {[i \in DOMAIN probs |->
                    IF i <= Len(entangled_probs)
                    THEN (probs[i] \div AMP_ONE) * (AMP_ONE - entanglement_type.correlation)
                            + (entangled_probs[i] \div AMP_ONE)
                                 * entanglement_type.correlation
                    ELSE probs[i]]}

\* The loop `for (piece_id, entanglement_type) in &self.entanglements` over the
\* partners `todo` not yet visited, in any iteration order of the HashMap.
RECURSIVE ModifyLoop(_, _, _, _)
ModifyLoop(probs, todo, state, entangled_states) ==
    IF todo = {}
    THEN {probs}
    ELSE UNION {
            IF piece_id \in DOMAIN entangled_states
            THEN UNION {ModifyLoop(probs1, todo \ {piece_id}, state, entangled_states)
                        : probs1 \in modify_probabilities(probs, entangled_states[piece_id],
                                                          state.entanglements[piece_id])}
            ELSE ModifyLoop(probs, todo \ {piece_id}, state, entangled_states)
            : piece_id \in todo}

\* QuantumState::measure_with_entanglement: the outcomes [state, returned].
measure_with_entanglement(state, entangled_states) ==
    IF DOMAIN state.entanglements = {}
    THEN measure(state)
    ELSE UNION {
            LET sum == SumSeq(modified)
                modified_probs ==
                    IF sum > 0
                    THEN [i \in DOMAIN modified |->
                            (((modified[i] \div 10) * AMP_ONE) \div Max(sum \div 10, 1))
                               * AMP_ONE]
                    ELSE modified
            IN  IF ~WeightedIndexOk(modified_probs)
                THEN {[state |-> state, returned |-> Panic]}
                ELSE {[state |-> Collapsed(state, state.basis_states[idx]),
                       returned |-> state.basis_states[idx]]
                      : idx \in WeightedIndexSamples(modified_probs)}
            : modified \in ModifyLoop(probabilities(state), DOMAIN state.entanglements,
                                      state, entangled_states)}

\* create_entanglement recording the link on piece1 only.
create_entanglement_FirstSideOnly(piece1_id, piece2_id, entanglement_type, registry) ==
    IF piece1_id \notin DOMAIN registry \/ piece2_id \notin DOMAIN registry
    THEN [ok |-> FALSE, states |-> registry]
    ELSE [ok |-> TRUE,
          states |-> [registry EXCEPT ![piece1_id] =
                         entangle(registry[piece1_id], piece2_id, entanglement_type)]]

\* create_entanglement: the Result, with the registry left.
create_entanglement(piece1_id, piece2_id, entanglement_type, registry) ==
    IF piece1_id \notin DOMAIN registry \/ piece2_id \notin DOMAIN registry
    THEN [ok |-> FALSE, states |-> registry]
    ELSE LET registry1 == [registry EXCEPT ![piece1_id] =
                              entangle(registry[piece1_id], piece2_id, entanglement_type)]
             registry2 == [registry1 EXCEPT ![piece2_id] =
                              entangle(registry1[piece2_id], piece1_id, entanglement_type)]
         IN  [ok |-> TRUE, states |-> registry2]

\* update_entangled_state whose Bell arm collapses to the last basis state.
update_entangled_state_BellToLast(state, entanglement_type, measured_position) ==
    CASE entanglement_type.kind = "Bell" ->
            IF Len(state.basis_states) > 1
            THEN Collapsed(state, state.basis_states[Len(state.basis_states)])
            ELSE state
      [] entanglement_type.kind \in {"WState", "GHZ"} -> normalize(state)
      [] entanglement_type.kind = "Custom" -> normalize(state)

update_entangled_state(state, entanglement_type, measured_position) ==
    CASE entanglement_type.kind = "Bell" ->
            IF Len(state.basis_states) > 1
            THEN Collapsed(state, state.basis_states[1])
            ELSE state
      [] entanglement_type.kind \in {"WState", "GHZ"} -> normalize(state)
      [] entanglement_type.kind = "Custom" -> normalize(state)

\* The first loop of collapse_state, `for other_piece_id in entangled_pieces`,
\* over the partners `todo` not yet visited; the Vec has the order the HashMap
\* gave its keys.
RECURSIVE UpdatePartners(_, _, _, _)
UpdatePartners(registry, todo, piece_id, measured_position) ==
    IF todo = {}
    THEN {registry}
    ELSE UNION {
            IF other_piece_id \in DOMAIN registry
            THEN LET other_state == registry[other_piece_id]
                     updated ==
                        IF other_piece_id \in DOMAIN registry[piece_id].entanglements
                        THEN update_entangled_state(
                                 other_state,
                                 registry[piece_id].entanglements[other_piece_id],
                                 measured_position)
                        ELSE other_state
                 IN  UpdatePartners(
                         [registry EXCEPT ![other_piece_id] = disentangle(updated, piece_id)],
                         todo \ {other_piece_id}, piece_id, measured_position)
            ELSE UpdatePartners(registry, todo \ {other_piece_id}, piece_id,
                                measured_position)
            : other_piece_id \in todo}

\* The second loop of collapse_state: `state.disentangle(other_piece_id)` for
\* every partner.
ClearEntanglements(state, partners) ==
    [state EXCEPT !.entanglements =
        [id \in (DOMAIN state.entanglements) \ partners |-> state.entanglements[id]]]

\* collapse_state: the outcomes [states, returned] of one call; `returned` is
\* the Result (or Panic).
collapse_state(piece_id, registry) ==
    IF piece_id \notin DOMAIN registry
    THEN {[states |-> registry, returned |-> [ok |-> FALSE]]}
    ELSE LET state == registry[piece_id]
             partners == entangled_pieces(state)
         IN  IF partners # {}
             THEN UNION {
                     IF m.returned = Panic
                     THEN {[states |-> registry, returned |-> Panic]}
                     ELSE {[states |-> [registry2 EXCEPT ![piece_id] =
                                           ClearEntanglements(registry2[piece_id], partners)],
                            returned |-> [ok |-> TRUE, position |-> m.returned]]
                           : registry2 \in
                               UpdatePartners([registry EXCEPT ![piece_id] = m.state],
                                              partners, piece_id, m.returned)}
                     : m \in measure_with_entanglement(state, registry)}
             ELSE {IF m.returned = Panic
                   THEN [states |-> registry, returned |-> Panic]
                   ELSE [states |-> [registry EXCEPT ![piece_id] = m.state],
                         returned |-> [ok |-> TRUE, position |-> m.returned]]
                   : m \in measure(state)}

(***************************************************************************)
(* One QuantumState, kept under the id "A": construction, add_position,    *)
(* apply_interference and measure.                                         *)
(***************************************************************************)
e4 == ChessPosition("e4", 3, 4)

e5 == ChessPosition("e5", 4, 4)

StatePositions == {e4, e5}

\* The arguments superposition is called with.
PositionLists == {<<>>, <<e4>>, <<e4, e5>>}

ProbabilityLists ==
    {<<>>, <<PROB_ONE>>, <<PROB_ONE \div 2>>, <<PROB_ONE \div 2, PROB_ONE \div 2>>,
     <<(PROB_ONE * 36) \div 100, (PROB_ONE * 64) \div 100>>,
     <<PROB_ONE \div 2, PROB_ONE \div 2 + 2>>}

\* The amplitudes add_position is called with: 1, -1 and i.
InputAmplitudes == {Complex64(AMP_ONE, 0), Complex64(-AMP_ONE, 0), Complex64(0, AMP_ONE)}

\* Complex64::new(phase.cos(), phase.sin()) for phase = 0.0, the phase whose
\* cosine and sine are exact in f64.
PhaseFactors == {Complex64(AMP_ONE, 0)}

\* A call to the store returned: `registry` is what it leaves, `call` describes it.
Reply(registry, call) ==
    /\ states' = registry
    /\ last_call' = call
    /\ calls' = calls + 1
    /\ UNCHANGED <<rulesVars, game>>

InitQuantumState == Constructed(DefaultQuantumRules) /\ StoreIdle

NewState ==
    /\ calls < MaxStoreCalls
    /\ \E position \in StatePositions :
          Reply([id \in {"A"} |-> new(position)],
                [op |-> "new", position |-> position])

SuperpositionState ==
    /\ calls < MaxStoreCalls
    /\ \E positions \in PositionLists, probs \in ProbabilityLists :
          LET built == superposition(positions, probs)
          IN  Reply(IF built.ok THEN [id \in {"A"} |-> built.state] ELSE states,
                    [op |-> "superposition", positions |-> positions,
                     probabilities |-> probs, ok |-> built.ok])

AddPosition ==
    /\ calls < MaxStoreCalls
    /\ "A" \in DOMAIN states
    /\ \E position \in StatePositions, amplitude \in InputAmplitudes :
          Reply([states EXCEPT !["A"] = add_position(states["A"], position, amplitude)],
                [op |-> "add_position", position |-> position, amplitude |-> amplitude])

ApplyInterference ==
    /\ calls < MaxStoreCalls
    /\ "A" \in DOMAIN states
    /\ \E position1 \in StatePositions, position2 \in StatePositions,
          phase_factor \in PhaseFactors :
          LET r == apply_interference(states["A"], position1, position2, phase_factor)
          IN  Reply([states EXCEPT !["A"] = r.state],
                    [op |-> "apply_interference", position1 |-> position1,
                     position2 |-> position2, ok |-> r.ok])

Measure ==
    /\ calls < MaxStoreCalls
    /\ "A" \in DOMAIN states
    /\ \E m \in measure(states["A"]) :
          Reply([states EXCEPT !["A"] = m.state],
                [op |-> "measure", returned |-> m.returned])

NextQuantumState ==
    NewState \/ SuperpositionState \/ AddPosition \/ ApplyInterference \/ Measure

SpecQuantumState == InitQuantumState /\ [][NextQuantumState]_vars

(***************************************************************************)
(* The registry of three pieces: create_entanglement and collapse_state.   *)
(***************************************************************************)
a1n == ChessPosition("a1", 0, 0)

a8n == ChessPosition("a8", 7, 0)

d1n == ChessPosition("d1", 0, 3)

\* The ids of the pieces in the registry, and one id that is not in it.
Uuids == {"A", "B", "C"}

UnknownUuid == "D"

EntanglementTypes == {Bell, WState, GHZ, Custom(AMP_ONE \div 2)}

\* The pairs of ids create_entanglement is called with: every pair of pieces
\* (a piece with itself included), and the unknown id on either side.
EntanglementPairs ==
    {<<"A", "A">>, <<"A", "B">>, <<"A", "C">>, <<"B", "B">>, <<"B", "C">>, <<"C", "C">>,
     <<UnknownUuid, "A">>, <<"A", UnknownUuid>>}

\* A in superposition of e4 and e5 (0.5 each), B of a1 and a8 (0.36, 0.64), C
\* definitely on d1.
InitialStates ==
    [id \in Uuids |->
        CASE id = "A" -> superposition(<<e4, e5>>, <<PROB_ONE \div 2, PROB_ONE \div 2>>).state
          [] id = "B" -> superposition(<<a1n, a8n>>, <<(PROB_ONE * 36) \div 100,
                                                      (PROB_ONE * 64) \div 100>>).state
          [] id = "C" -> new(d1n)]

InitRegistry ==
    /\ Constructed(DefaultQuantumRules)
    /\ states = InitialStates
    /\ last_call = NoCall

CreateEntanglement ==
    /\ calls < MaxStoreCalls
    /\ \E pair \in EntanglementPairs, entanglement_type \in EntanglementTypes :
          LET piece1_id == pair[1]
              piece2_id == pair[2]
              r == create_entanglement(piece1_id, piece2_id, entanglement_type, states)
          IN  Reply(r.states,
                    [op |-> "create_entanglement", piece1_id |-> piece1_id,
                     piece2_id |-> piece2_id, entanglement_type |-> entanglement_type,
                     ok |-> r.ok])

CollapseState ==
    /\ calls < MaxStoreCalls
    /\ \E piece_id \in Uuids \cup {UnknownUuid} :
          \E o \in collapse_state(piece_id, states) :
              Reply(o.states,
                    [op |-> "collapse_state", piece_id |-> piece_id,
                     entangled_pieces |-> IF piece_id \in DOMAIN states
                                          THEN entangled_pieces(states[piece_id])
                                          ELSE {},
                     returned |-> o.returned])

NextRegistry == CreateEntanglement \/ CollapseState

SpecRegistry == InitRegistry /\ [][NextRegistry]_vars

(***************************************************************************)
(* The probability model, quantum/probability.rs: pure functions.  An f64  *)
(* probability is kept in millionths.  A position is the sequence of the   *)
(* characters of the &str.                                                 *)
(***************************************************************************)
\* const MAX_STAKE_BONUS: f64 = 0.3
MAX_STAKE_BONUS == 300000

\* const MIN_PROBABILITY: f64 = 0.05
MIN_PROBABILITY == 50000

\* const MAX_PROBABILITY: f64 = 0.95
MAX_PROBABILITY == 950000

\* enum ProbabilityZone, in the order of its declaration.
ProbabilityZone == <<"VeryLow", "Low", "Medium", "High", "VeryHigh">>

ProbabilityZones == {ProbabilityZone[i] : i \in DOMAIN ProbabilityZone}

calculate_stake_modifier(stake_amount) ==
    LET stake_normalized_percent == Min(stake_amount, 100)
    IN  (stake_normalized_percent * MAX_STAKE_BONUS) \div 100

calculate_position_modifier(position) ==
    IF Len(position) < 2
    THEN 0
    ELSE LET file == position[1]
             rank == position[2]
         IN  IF (file = "d" \/ file = "e") /\ (rank = "4" \/ rank = "5")
             THEN (5 * PROB_ONE) \div 100
             ELSE 0

\* calculate_probability without the clamp to MAX_PROBABILITY and MIN_PROBABILITY.
calculate_probability_Unclamped(stake_amount, position, zone) ==
    LET base == CASE zone = "VeryLow" -> (1 * PROB_ONE) \div 10
                  [] zone = "Low" -> (3 * PROB_ONE) \div 10
                  [] zone = "Medium" -> (5 * PROB_ONE) \div 10
                  [] zone = "High" -> (7 * PROB_ONE) \div 10
                  [] zone = "VeryHigh" -> (9 * PROB_ONE) \div 10
    IN  base + calculate_stake_modifier(stake_amount)
           + calculate_position_modifier(position)

calculate_probability(stake_amount, position, zone) ==
    LET base == CASE zone = "VeryLow" -> (1 * PROB_ONE) \div 10
                  [] zone = "Low" -> (3 * PROB_ONE) \div 10
                  [] zone = "Medium" -> (5 * PROB_ONE) \div 10
                  [] zone = "High" -> (7 * PROB_ONE) \div 10
                  [] zone = "VeryHigh" -> (9 * PROB_ONE) \div 10
        stake_modifier == calculate_stake_modifier(stake_amount)
        position_modifier == calculate_position_modifier(position)
    IN  Max(Min(base + stake_modifier + position_modifier, MAX_PROBABILITY),
            MIN_PROBABILITY)

\* The `let base_zone = match piece_type` of determine_probability_zone.
base_zone(piece_type) ==
    CASE piece_type = "pawn" -> "High"
      [] piece_type \in {"knight", "bishop"} -> "Medium"
      [] piece_type = "rook" -> "Medium"
      [] piece_type = "queen" -> "Low"
      [] piece_type = "king" -> "VeryLow"
      [] OTHER -> "Medium"

\* determine_probability_zone applying the stake shift to a capture as well.
determine_probability_zone_StakeAfterCapture(piece_type, is_capture, stake_amount) ==
    LET captured == IF is_capture
                    THEN CASE base_zone(piece_type) = "VeryHigh" -> "High"
                           [] base_zone(piece_type) = "High" -> "Medium"
                           [] base_zone(piece_type) = "Medium" -> "Low"
                           [] base_zone(piece_type) = "Low" -> "VeryLow"
                           [] base_zone(piece_type) = "VeryLow" -> "VeryLow"
                    ELSE base_zone(piece_type)
    IN  IF stake_amount > 50
        THEN CASE captured = "VeryLow" -> "Low"
               [] captured = "Low" -> "Medium"
               [] captured = "Medium" -> "High"
               [] captured = "High" -> "VeryHigh"
               [] captured = "VeryHigh" -> "VeryHigh"
        ELSE captured

determine_probability_zone(piece_type, is_capture, stake_amount) ==
    IF is_capture
    THEN CASE base_zone(piece_type) = "VeryHigh" -> "High"
           [] base_zone(piece_type) = "High" -> "Medium"
           [] base_zone(piece_type) = "Medium" -> "Low"
           [] base_zone(piece_type) = "Low" -> "VeryLow"
           [] base_zone(piece_type) = "VeryLow" -> "VeryLow"
    ELSE IF stake_amount > 50
         THEN CASE base_zone(piece_type) = "VeryLow" -> "Low"
                [] base_zone(piece_type) = "Low" -> "Medium"
                [] base_zone(piece_type) = "Medium" -> "High"
                [] base_zone(piece_type) = "High" -> "VeryHigh"
                [] base_zone(piece_type) = "VeryHigh" -> "VeryHigh"
         ELSE base_zone(piece_type)

calculate_move_probability(piece_type, from_position, to_position, is_capture, stake_amount, is_entangled) ==
    LET zone == determine_probability_zone(piece_type, is_capture, stake_amount)
        probability == calculate_probability(stake_amount, to_position, zone)
    IN  IF is_entangled THEN (probability * 8) \div 10 ELSE probability

(***************************************************************************)
(* The calls made to the probability model: the initial state holds the    *)
(* arguments of the call to come, each action is one of the three public   *)
(* functions applied to them.                                              *)
(***************************************************************************)
PieceTypes == {"pawn", "knight", "bishop", "rook", "queen", "king", "dragon"}

\* u64 stake amounts: both sides of 50 and of 100, and a large one.
StakeAmounts == {0, 50, 51, 100, 101, 2147483647}

\* &str positions: the empty string, one character, the corner a1, central
\* squares, and squares sharing only the file or only the rank with them.
PositionStrings ==
    {<<>>, <<"d">>, <<"a", "1">>, <<"d", "4">>, <<"e", "5">>, <<"d", "3">>, <<"c", "4">>}

\* The arguments of a call to come.
ProbabilityArguments ==
    [op : {"Arguments"}, piece_type : PieceTypes, from_position : {<<"a", "1">>},
     to_position : PositionStrings, is_capture : BOOLEAN, stake_amount : StakeAmounts,
     is_entangled : BOOLEAN, zone : ProbabilityZones]

InitProbability ==
    /\ Constructed(DefaultQuantumRules)
    /\ states = NoStates
    /\ last_call \in ProbabilityArguments

CalculateProbability ==
    /\ last_call.op = "Arguments"
    /\ Reply(states,
             [op |-> "calculate_probability", stake_amount |-> last_call.stake_amount,
              position |-> last_call.to_position, zone |-> last_call.zone,
              returned |-> calculate_probability(last_call.stake_amount,
                                                 last_call.to_position, last_call.zone)])

DetermineProbabilityZone ==
    /\ last_call.op = "Arguments"
    /\ Reply(states,
             [op |-> "determine_probability_zone", piece_type |-> last_call.piece_type,
              is_capture |-> last_call.is_capture, stake_amount |-> last_call.stake_amount,
              returned |-> determine_probability_zone(last_call.piece_type,
                                                      last_call.is_capture,
                                                      last_call.stake_amount)])

CalculateMoveProbability ==
    /\ last_call.op = "Arguments"
    /\ Reply(states,
             [op |-> "calculate_move_probability", piece_type |-> last_call.piece_type,
              to_position |-> last_call.to_position, is_capture |-> last_call.is_capture,
              stake_amount |-> last_call.stake_amount,
              is_entangled |-> last_call.is_entangled,
              returned |-> calculate_move_probability(
                               last_call.piece_type, last_call.from_position,
                               last_call.to_position, last_call.is_capture,
                               last_call.stake_amount, last_call.is_entangled)])

NextProbability ==
    CalculateProbability \/ DetermineProbabilityZone \/ CalculateMoveProbability

SpecProbability == InitProbability /\ [][NextProbability]_vars

(***************************************************************************)
(* is_valid_classical_move called on its own: a crowded board, every piece *)
(* type, three origins and every destination of the board.                 *)
(***************************************************************************)
WhitePawn == Piece("Pawn", TRUE)

WhiteRook == Piece("Rook", TRUE)

WhiteQueen == Piece("Queen", TRUE)

BlackBishop == Piece("Bishop", FALSE)

BlackQueen == Piece("Queen", FALSE)

b2 == Position(1, 1)

d6 == Position(3, 5)

f4 == Position(5, 3)

f6 == Position(5, 5)

h1 == Position(7, 0)

h8 == Position(7, 7)

\* A white queen on d4 with a white pawn on its file (d6), a black knight
\* on its rank (f4), a black bishop (f6) and a white knight (b2) on its
\* diagonals; black king a1, white king h1.
CrowdedPieces ==
    [i \in Cells |->
        CASE i = ScanIndex(a1) -> BlackKing
          [] i = ScanIndex(h1) -> WhiteKing
          [] i = ScanIndex(d4) -> WhiteQueen
          [] i = ScanIndex(d6) -> WhitePawn
          [] i = ScanIndex(f4) -> BlackKnight
          [] i = ScanIndex(f6) -> BlackBishop
          [] i = ScanIndex(b2) -> WhiteKnight
          [] OTHER -> NoPiece]

ClassicalBoards == {CrowdedPieces, InitialPieces}

ClassicalPieces ==
    {WhitePawn, WhiteKnight, WhiteBishop, WhiteRook, WhiteQueen, WhiteKing, BlackQueen}

ClassicalOrigins == {d4, a1, h8}

\* The arguments of a call to come.
ClassicalArguments ==
    [op : {"Arguments"}, piece : ClassicalPieces, from : ClassicalOrigins,
     to : AllPositions]

InitClassical ==
    /\ \E placed \in ClassicalBoards : ConstructedOn(placed, DefaultQuantumRules)
    /\ states = NoStates
    /\ last_call \in ClassicalArguments

IsValidClassicalMove ==
    /\ last_call.op = "Arguments"
    /\ Reply(states,
             [op |-> "is_valid_classical_move", piece |-> last_call.piece,
              from |-> last_call.from, to |-> last_call.to,
              inspected |-> PathInspected(Engine.board, last_call.piece,
                                          last_call.from, last_call.to),
              returned |-> is_valid_classical_move(Engine.board, last_call.piece,
                                                   last_call.from, last_call.to)])

NextClassical == IsValidClassicalMove

SpecClassical == InitClassical /\ [][NextClassical]_vars

(***************************************************************************)
(* update_game_state and is_draw_by_insufficient_material called on a      *)
(* position: one king in the corner a1, the other on c2, and any subset of *)
(* eight further pieces, with either colour in the corner.                 *)
(***************************************************************************)
a8 == Position(0, 7)

h7 == Position(7, 6)

h2 == Position(7, 1)

\* A further piece: its square, its type, and whether it belongs to the side
\* of the king on c2 (the attacker) or of the king in the corner.
Extra(square, piece_type, attacker) ==
    [square |-> square, piece_type |-> piece_type, attacker |-> attacker]

PositionExtras ==
    {Extra(c3, "Knight", TRUE), Extra(b3, "Knight", TRUE), Extra(d4, "Bishop", TRUE),
     Extra(a8, "Rook", TRUE), Extra(f6, "Bishop", FALSE), Extra(h8, "Knight", FALSE),
     Extra(h7, "Pawn", FALSE), Extra(h2, "Pawn", TRUE)}

\* The board with the attacker's king on c2, the other king on a1 and `extras`.
Placed(attacker_is_white, extras) ==
    [i \in Cells |->
        IF i = ScanIndex(a1) THEN Piece("King", ~attacker_is_white)
        ELSE IF i = ScanIndex(c2) THEN Piece("King", attacker_is_white)
        ELSE IF \E e \in extras : ScanIndex(e.square) = i
        THEN LET e == CHOOSE e \in extras : ScanIndex(e.square) = i
             IN  Piece(e.piece_type, e.attacker = attacker_is_white)
        ELSE NoPiece]

PositionBoards ==
    {Placed(attacker_is_white, extras) :
        attacker_is_white \in BOOLEAN, extras \in SUBSET PositionExtras}

InitPositions ==
    /\ \E placed \in PositionBoards : ConstructedOn(placed, DefaultQuantumRules)
    /\ StoreIdle

\* Rules::update_game_state(&board), called once.
UpdateGameState ==
    /\ result = "None"
    /\ LET updated == update_game_state(superpositions, quantum_rules, game_result,
                                        Engine.board)
       IN  /\ game_result' = updated.game_result
           /\ result' = updated.returned
    /\ calls' = calls + 1
    /\ UNCHANGED <<pieces, quantum, superpositions, entanglements, quantum_rules,
                   in_flight, applied, states, last_call, game>>

\* is_draw_by_insufficient_material(&board), called once.
IsDrawByInsufficientMaterial ==
    /\ last_call = NoCall
    /\ Reply(states,
             [op |-> "is_draw_by_insufficient_material",
              returned |-> is_draw_by_insufficient_material(Engine.board)])

NextPositions == UpdateGameState \/ IsDrawByInsufficientMaterial

SpecPositions == InitPositions /\ [][NextPositions]_vars

(***************************************************************************)
(* Split and Measure requests on two positions with a black knight on b5:  *)
(* one quiet, one with Black in check; kings may be split or may not.      *)
(***************************************************************************)
a2 == Position(0, 1)

a3 == Position(0, 2)

b1 == Position(1, 0)

\* InitialPieces and a black knight on b5: nobody is in check.
QuietPieces == [InitialPieces EXCEPT ![ScanIndex(b5)] = BlackKnight]

\* Black king a1, white king c2, white knight b3, black knight b5: the
\* knight on b3 checks the black king, which can step to a2.
CheckedPieces ==
    [i \in Cells |->
        CASE i = ScanIndex(a1) -> BlackKing
          [] i = ScanIndex(c2) -> WhiteKing
          [] i = ScanIndex(b3) -> WhiteKnight
          [] i = ScanIndex(b5) -> BlackKnight
          [] OTHER -> NoPiece]

SplitBoards == {QuietPieces, CheckedPieces}

SplitQuantumRules == {DefaultQuantumRules, SmallCapQuantumRules}

\* The pieces Split requests name and the squares they name as targets.
SplitPieces == {WhiteKing, BlackKing, BlackKnight}

SplitTargets == {a2, b1, b2, a3, c3, d6}

SplitMeasureInputs == {<<>>, <<b2>>, <<a3>>, <<d4>>, <<b2, a3>>}

InitSplit ==
    /\ \E placed \in SplitBoards, rules \in SplitQuantumRules :
          ConstructedOn(placed, rules)
    /\ StoreIdle

\* execute_move(Split) for a piece standing on one of the squares of the board.
SplitPiece ==
    /\ calls < MaxSplitCalls
    /\ \E piece \in SplitPieces, from \in AllPositions, to_primary \in SplitTargets :
          \E to_secondary \in SplitTargets \ {to_primary} :
              /\ get_piece(Engine.board, from) = piece
              /\ \E o \in ExecuteSplit(Engine, quantum_rules, piece, from, to_primary,
                                       to_secondary, 60) :
                    Commit(o, [kind |-> "Split", piece |-> piece, from |-> from,
                               to_primary |-> to_primary, to_secondary |-> to_secondary,
                               probability |-> 60])

\* execute_move(Measure).
MeasureSquares ==
    /\ calls < MaxSplitCalls
    /\ \E positions \in SplitMeasureInputs :
          \E o \in ExecuteMeasure(Engine, quantum_rules, positions) :
              Commit(o, [kind |-> "Measure", positions |-> positions])

NextSplit == SplitPiece \/ MeasureSquares

SpecSplit == InitSplit /\ [][NextSplit]_vars

(***************************************************************************)
(* add_player and end_game called on a new GameState.                      *)
(***************************************************************************)
WalletAddresses == {"alice", "bob"}

GameStakes == {10, 25}

ColorPreferences == Color \cup {None}

Winners == Color \cup {None}

InitGame == Constructed(DefaultQuantumRules) /\ StoreIdle

\* A call on the GameState returned: `state` is what it leaves.
GameReply(state, call) ==
    /\ game' = state
    /\ last_call' = call
    /\ calls' = calls + 1
    /\ UNCHANGED <<rulesVars, states>>

AddPlayer ==
    /\ calls < MaxGameCalls
    /\ \E wallet_address \in WalletAddresses, stake_amount \in GameStakes,
          color_preference \in ColorPreferences :
          LET added == add_player(game, wallet_address, stake_amount, color_preference)
          IN  GameReply(added.state,
                        [op |-> "add_player", wallet_address |-> wallet_address,
                         stake_amount |-> stake_amount,
                         color_preference |-> color_preference,
                         returned |-> added.returned])

EndGame ==
    /\ calls < MaxGameCalls
    /\ \E winner \in Winners :
          GameReply(end_game(game, winner, "over"),
                    [op |-> "end_game", winner |-> winner])

NextGame == AddPlayer \/ EndGame

SpecGame == InitGame /\ [][NextGame]_vars


(***************************************************************************)
(* Claims.                                                                 *)
(***************************************************************************)
CurrentBoard == Board(pieces, quantum)

\* This step is an execute_move call that accepted a request of kind `kind`
\* (applied' is then the request of this very call).
Accepted(kind) == result' = "Success" /\ applied'.kind = kind /\ calls' = calls + 1

\* C1: whenever execute_move returns InvalidMove, the board (pieces and
\* quantum marks), the superposition set, the entanglement list and
\* game_result are exactly what they were before the call.
C1_RejectedMoveChangesNothing ==
    [][result' = "InvalidMove" =>
          UNCHANGED <<pieces, quantum, superpositions, entanglements, game_result>>]_vars

\* A move was rejected while superpositions and entanglements were active.
C1_Witness ==
    result = "InvalidMove" /\ superpositions # {} /\ entanglements # <<>>

\* C2: once game_result is WhiteWins, BlackWins or Draw, every later
\* execute_move call fails with GameAlreadyEnded and changes neither the
\* board nor the superposition and entanglement sets.
C2_TerminalStateRejectsMoves ==
    [][(game_result # "InProgress" /\ calls' = calls + 1) =>
          /\ result' = "GameAlreadyEnded"
          /\ UNCHANGED <<pieces, quantum, superpositions, entanglements>>]_vars

\* C3: once game_result has left InProgress its value never changes again.
C3_GameResultSetOnce ==
    [][game_result # "InProgress" => game_result' = game_result]_vars

\* C4: after every accepted move the terminal status of the resulting
\* position is what the call reports: if update_game_state finds the position
\* to be checkmate, stalemate or insufficient material, the call returned
\* GameOver and game_result holds that result.
C4_TerminalStatusReported ==
    (calls > 0 /\ result # "InvalidMove") =>
        LET ugs == update_game_state(superpositions, quantum_rules, game_result, CurrentBoard)
        IN  ugs.returned = "GameOver" =>
                (result = "GameOver" /\ game_result = ugs.game_result)

\* C5: each board position belongs to at most one active Superposition.
C5_PositionInAtMostOneSuperposition ==
    \A s \in superpositions : \A t \in superpositions :
        s # t => {s.position1, s.position2} \cap {t.position1, t.position2} = {}

\* The active superpositions created by a Split of a piece of colour `color`.
SuperpositionsOf(color) == {s \in superpositions : in_flight[s].color = color}

\* C6: the number of active superpositions created by one colour's Splits
\* never exceeds max_per_player (checked for an engine configured with
\* max_per_player = 1).
C6_SuperpositionCapPerPlayer ==
    \A color \in BOOLEAN :
        Cardinality(SuperpositionsOf(color)) <= quantum_rules.superposition.max_per_player

C8_SplitNeedsBothTargetsLegal ==
    [][Accepted("Split") =>
          LET m == applied'
          IN  /\ is_valid_classical_move(CurrentBoard, m.piece, m.from, m.to_primary)
              /\ is_valid_classical_move(CurrentBoard, m.piece, m.from, m.to_secondary)]_vars

\* A Split was accepted; its two targets are different squares.
C8_Witness ==
    /\ result = "Success"
    /\ applied.kind = "Split"
    /\ applied.to_primary # applied.to_secondary
    /\ calls = 1

\* The outcomes of a Merge request submitted in the current state.
MergeOutcomes(piece, from_primary, from_secondary, to) ==
    ExecuteMerge(Engine, quantum_rules, piece, from_primary, from_secondary, to)

\* C10: in every reachable state, a Merge request is accepted only if an
\* active Superposition has the two positions {from_primary, from_secondary}
\* in either order and `to` is a legal classical destination from both; and
\* submitting the two source positions in the other order has the same
\* outcome.
C10_MergeValidation ==
    \A piece \in InputPieces, from_primary \in InputSquares,
       from_secondary \in InputSquares, to \in InputSquares :
       /\ (\E o \in MergeOutcomes(piece, from_primary, from_secondary, to) :
              o.returned # "InvalidMove")
          => /\ \E s \in superpositions :
                   \/ (s.position1 = from_primary /\ s.position2 = from_secondary)
                   \/ (s.position1 = from_secondary /\ s.position2 = from_primary)
             /\ is_valid_classical_move(CurrentBoard, piece, from_primary, to)
             /\ is_valid_classical_move(CurrentBoard, piece, from_secondary, to)
       /\ MergeOutcomes(piece, from_primary, from_secondary, to)
             = MergeOutcomes(piece, from_secondary, from_primary, to)

\* A Merge of the squares b5, b3 onto d4 was accepted as the second call: it
\* consumed the only superposition and put the piece on d4.
C10_Witness ==
    /\ result = "Success"
    /\ applied.kind = "Merge"
    /\ applied.from_primary = b5
    /\ applied.from_secondary = b3
    /\ applied.to = d4
    /\ calls = 2
    /\ superpositions = {}
    /\ pieces[ScanIndex(d4)] = applied.piece

\* The two squares of a superposition.
SquaresOf(s) == {s.position1, s.position2}

\* The elements of a sequence.
Range(seq) == {seq[i] : i \in DOMAIN seq}

\* What C9 asks of a step that is an accepted Measure(positions): no active
\* Superposition contains a listed position; for each superposition the call
\* resolved, the piece that was split stands on one of its two squares; the
\* call changes at most one square per resolved superposition and none
\* outside the resolved superpositions.
MeasureEffect ==
    LET positions == Range(applied'.positions)
        resolved == superpositions \ superpositions'
        changed == {c \in Cells : pieces'[c] # pieces[c]}
    IN  /\ \A s \in superpositions' : SquaresOf(s) \cap positions = {}
        /\ \A s \in resolved :
              \E r \in SquaresOf(s) : pieces'[ScanIndex(r)] = in_flight[s]
        /\ changed \subseteq {ScanIndex(r) : r \in UNION {SquaresOf(s) : s \in resolved}}
        /\ Cardinality(changed) <= Cardinality(resolved)

\* C9: after an accepted Measure(positions) no active Superposition contains
\* a listed position, and for each superposition the call resolved the piece
\* that was split stands on exactly one of that superposition's two squares
\* and on no other square.
C9_MeasureConsumesSuperpositions ==
    [][Accepted("Measure") => MeasureEffect]_vars

\* The same, for Measure calls made while no square is shared by two active
\* superpositions.
C9_WithoutSharedSquares ==
    [][(Accepted("Measure") /\ C5_PositionInAtMostOneSuperposition) => MeasureEffect]_vars

\* C11: an accepted Merge(piece, from_primary, from_secondary, to) removes
\* exactly one Superposition, one over the two source squares, and leaves the
\* others in the set; it clears the quantum marks of both source squares and
\* puts the piece on `to`.
C11_MergeEffect ==
    [][Accepted("Merge") =>
          LET m == applied'
              removed == superpositions \ superpositions'
          IN  /\ superpositions' \subseteq superpositions
              /\ Cardinality(removed) = 1
              /\ \A s \in removed : SquaresOf(s) = {m.from_primary, m.from_secondary}
              /\ quantum'[ScanIndex(m.from_primary)] = "None"
              /\ quantum'[ScanIndex(m.from_secondary)] = "None"
              /\ pieces'[ScanIndex(m.to)] = m.piece]_vars

\* A Merge was accepted while a second superposition was active: that one is
\* still in the set.
C11_Witness ==
    /\ result = "Success"
    /\ applied.kind = "Merge"
    /\ superpositions # {}
    /\ pieces[ScanIndex(applied.to)] = applied.piece

\* The pieces and the entanglement policies Entangle requests are judged for.
EntanglePieces == {Piece(t, c) : t \in {"Knight", "Bishop", "Rook"}, c \in BOOLEAN}

EntanglementPolicies ==
    {[DefaultQuantumRules EXCEPT !.entanglement.allow_different_piece_types = d,
                                 !.entanglement.allow_opponent_entanglement = o]
        : d \in BOOLEAN, o \in BOOLEAN}

\* execute_move accepts Entangle{piece1, d4, piece2, b3} in the current state
\* under the configuration `rules`.
EntangleAccepted(rules, piece1, piece2) ==
    \E o \in ExecuteEntangle(Engine, rules, piece1, d4, piece2, b3) : o.returned = "Success"

\* What C12 asks of every accepted Entangle: (a) same colour unless
\* allow_opponent_entanglement, (b) same type unless
\* allow_different_piece_types, (c) both types in the allowed set.
EntangleConditions(rules, piece1, piece2) ==
    /\ piece1.color = piece2.color \/ rules.entanglement.allow_opponent_entanglement
    /\ piece1.piece_type = piece2.piece_type
          \/ rules.entanglement.allow_different_piece_types
    /\ {piece1.piece_type, piece2.piece_type} \subseteq rules.entanglement.allowed_piece_types

\* C12 as claimed: an Entangle is accepted only under (a), (b) and (c), the
\* default allowed set is {Knight, Bishop, Queen}, and under the default
\* configuration an Entangle of two same-colour pieces of different types is
\* rejected.
C12_EntangleValidation ==
    /\ DefaultQuantumRules.entanglement.allowed_piece_types = {"Knight", "Bishop", "Queen"}
    /\ \A rules \in EntanglementPolicies, piece1 \in EntanglePieces, piece2 \in EntanglePieces :
          EntangleAccepted(rules, piece1, piece2) => EntangleConditions(rules, piece1, piece2)
    /\ \A piece1 \in EntanglePieces, piece2 \in EntanglePieces :
          (piece1.color = piece2.color /\ piece1.piece_type # piece2.piece_type)
             => ~EntangleAccepted(DefaultQuantumRules, piece1, piece2)

\* C12 as amended: an Entangle is accepted only under (a), (b) and (c), the
\* default allowed set is {Knight, Bishop, Queen}, and the default
\* configuration enables cross-type entanglement: it accepts an Entangle of
\* two same-colour pieces of different types when both types are allowed.
C12_EntangleValidationAmended ==
    /\ DefaultQuantumRules.entanglement.allowed_piece_types = {"Knight", "Bishop", "Queen"}
    /\ \A rules \in EntanglementPolicies, piece1 \in EntanglePieces, piece2 \in EntanglePieces :
          EntangleAccepted(rules, piece1, piece2) => EntangleConditions(rules, piece1, piece2)
    /\ \A piece1 \in EntanglePieces, piece2 \in EntanglePieces :
          (/\ piece1.color = piece2.color
           /\ piece1.piece_type # piece2.piece_type
           /\ {piece1.piece_type, piece2.piece_type}
                 \subseteq DefaultQuantumRules.entanglement.allowed_piece_types)
             => EntangleAccepted(DefaultQuantumRules, piece1, piece2)

\* The default configuration accepted an Entangle of a white knight with a
\* white bishop; in that state it rejects a white knight with a white rook.
C12_Witness ==
    /\ result = "Success"
    /\ applied.kind = "Entangle"
    /\ quantum_rules = DefaultQuantumRules
    /\ applied.piece1 = WhiteKnight
    /\ applied.piece2 = WhiteBishop
    /\ quantum[ScanIndex(applied.position1)] = "Entangled"
    /\ ~EntangleAccepted(quantum_rules, WhiteKnight, Piece("Rook", TRUE))

\* C13: in the registry, after any sequence of create_entanglement and
\* collapse_state calls, a piece's state lists another piece as entangled
\* exactly when that piece's state lists it; and once collapse_state has
\* returned a position for a piece, that piece lists no partner and no state
\* lists that piece: the links it had are gone from both sides in that call.
C13_EntanglementSymmetric ==
    /\ \A a \in DOMAIN states : \A b \in DOMAIN states :
          is_entangled_with(states[a], b) <=> is_entangled_with(states[b], a)
    /\ \A a \in DOMAIN states : entangled_pieces(states[a]) \subseteq DOMAIN states
    /\ (last_call.op = "collapse_state" /\ last_call.piece_id \in DOMAIN states) =>
          /\ last_call.returned # Panic
          /\ last_call.returned.ok
          /\ entangled_pieces(states[last_call.piece_id]) = {}
          /\ \A b \in DOMAIN states : ~is_entangled_with(states[b], last_call.piece_id)

\* collapse_state of B, the second partner of the link A-B, which also held a
\* link with C: B, A and C list no link with B, the registry having been
\* entangled by two earlier calls.
C13_Witness ==
    /\ last_call.op = "collapse_state"
    /\ last_call.piece_id = "B"
    /\ last_call.entangled_pieces = {"A", "C"}
    /\ last_call.returned # Panic
    /\ last_call.returned.ok
    /\ entangled_pieces(states["B"]) = {}
    /\ ~is_entangled_with(states["A"], "B")
    /\ ~is_entangled_with(states["C"], "B")

\* A step that is collapse_state(A) returning, right after an accepted
\* create_entanglement(A, B, Bell) of two different pieces.
CollapseAfterBell ==
    /\ last_call.op = "create_entanglement"
    /\ last_call.ok
    /\ last_call.entanglement_type = Bell
    /\ last_call.piece1_id # last_call.piece2_id
    /\ last_call'.op = "collapse_state"
    /\ last_call'.piece_id = last_call.piece1_id

\* What such a step does to the two states themselves: A is left with the one
\* basis state the call returned, B (when it had several) with its first one.
BellCollapseEffect ==
    LET A == last_call.piece1_id
        B == last_call.piece2_id
    IN  /\ last_call'.returned # Panic
        /\ last_call'.returned.ok
        /\ states'[A].basis_states = <<last_call'.returned.position>>
        /\ last_call'.returned.position \in {states[A].basis_states[i] :
                                                 i \in DOMAIN states[A].basis_states}
        /\ states'[A].amplitudes = <<Complex64(AMP_ONE, 0)>>
        /\ Len(states[B].basis_states) > 1 =>
               /\ states'[B].basis_states = <<states[B].basis_states[1]>>
               /\ states'[B].amplitudes = <<Complex64(AMP_ONE, 0)>>
        /\ Len(states[B].basis_states) <= 1 =>
               /\ states'[B].basis_states = states[B].basis_states
               /\ states'[B].amplitudes = states[B].amplitudes

\* C14 as stated: after create_entanglement(A, B, Bell) followed by
\* collapse_state(A), A is collapsed to a single basis state, B (if it had
\* more than one basis state) is collapsed to its index-0 basis state, and the
\* entanglement sets of both A and B are empty.
C14_BellCollapse ==
    [][CollapseAfterBell =>
          /\ BellCollapseEffect
          /\ entangled_pieces(states'[last_call.piece1_id]) = {}
          /\ entangled_pieces(states'[last_call.piece2_id]) = {}]_vars

\* C14, amended: after create_entanglement(A, B, Bell) followed by
\* collapse_state(A), A is collapsed to a single basis state, B (if it had
\* more than one basis state) is collapsed to its index-0 basis state, A's
\* entanglement set is empty and B's set has lost A and nothing else: it is
\* empty exactly when B had no other partner.
C14_BellCollapseAmended ==
    [][CollapseAfterBell =>
          /\ BellCollapseEffect
          /\ entangled_pieces(states'[last_call.piece1_id]) = {}
          /\ entangled_pieces(states'[last_call.piece2_id])
                = entangled_pieces(states[last_call.piece2_id]) \ {last_call.piece1_id}
          /\ \A id \in entangled_pieces(states'[last_call.piece2_id]) :
                states'[last_call.piece2_id].entanglements[id]
                   = states[last_call.piece2_id].entanglements[id]]_vars

\* collapse_state(A) has run on the Bell pair A-B: B, which was in
\* superposition over a1 and a8, stands on a1 (its index-0 basis state), A on
\* the square returned, and B keeps the link with C it had before.
C14_Witness ==
    /\ last_call.op = "collapse_state"
    /\ last_call.piece_id = "A"
    /\ last_call.entangled_pieces = {"B"}
    /\ last_call.returned # Panic
    /\ last_call.returned.ok
    /\ states["A"].basis_states = <<last_call.returned.position>>
    /\ states["B"].basis_states = <<a1n>>
    /\ entangled_pieces(states["A"]) = {}
    /\ entangled_pieces(states["B"]) = {"C"}

\* The sum of the squared magnitudes of the amplitudes of a state.
NormSquared(state) == SumSeq(probabilities(state))

\* The rounding the thousandths of the amplitudes leave in that sum.
NormTolerance == PROB_ONE \div 100

\* C15: measure is idempotent in effect: for every state, measure() returns one
\* of the state's basis positions and leaves that single basis state with
\* amplitude 1, and a measure() right after a measure() returns the same
\* position and leaves the state unchanged.
C15_MeasureIdempotent ==
    [][last_call'.op = "measure" =>
          /\ last_call'.returned # Panic
          /\ last_call'.returned \in {states["A"].basis_states[i] :
                                        i \in DOMAIN states["A"].basis_states}
          /\ states'["A"] = Collapsed(states["A"], last_call'.returned)
          /\ last_call.op = "measure" =>
                /\ last_call'.returned = last_call.returned
                /\ states' = states]_vars

\* C16: every QuantumState has squared amplitude magnitudes that sum to 1,
\* after construction and after every add_position or apply_interference,
\* inputs that cancel an existing amplitude included.
C16_Normalized ==
    \A id \in DOMAIN states : Abs(NormSquared(states[id]) - PROB_ONE) <= NormTolerance

\* What the arguments of superposition make of the call.
SuperpositionMustFail(positions, probs) ==
    \/ Len(positions) = 0
    \/ Len(positions) # Len(probs)
    \/ SumSeq(probs) - PROB_ONE > PROB_ONE \div 1000000
    \/ PROB_ONE - SumSeq(probs) > PROB_ONE \div 1000000

\* C17: superposition(positions, probabilities) fails, building no state,
\* exactly when positions is empty, or the two lists differ in length, or the
\* probabilities' sum differs from 1 by more than 1e-6; in every other case it
\* succeeds with one basis state (and one amplitude) per listed position, in
\* the given order.
C17_SuperpositionErrors ==
    [][last_call'.op = "superposition" =>
          /\ last_call'.ok <=> ~SuperpositionMustFail(last_call'.positions,
                                                      last_call'.probabilities)
          /\ ~last_call'.ok => states' = states
          /\ last_call'.ok =>
                /\ states'["A"].basis_states = last_call'.positions
                /\ Len(states'["A"].amplitudes) = Len(last_call'.positions)]_vars

\* superposition over e4 and e5 with probabilities 0.36 and 0.64 succeeded: the
\* state has the two basis states in that order, amplitudes 0.6 and 0.8.
C17_Witness ==
    /\ last_call.op = "superposition"
    /\ last_call.ok
    /\ last_call.positions = <<e4, e5>>
    /\ last_call.probabilities = <<(PROB_ONE * 36) \div 100, (PROB_ONE * 64) \div 100>>
    /\ states["A"].basis_states = <<e4, e5>>
    /\ states["A"].amplitudes = <<Complex64((AMP_ONE * 6) \div 10, 0),
                                   Complex64((AMP_ONE * 8) \div 10, 0)>>

\* C18: for every piece type, capture flag, stake amount, landing square and
\* entanglement flag, the probability returned by calculate_probability and by
\* calculate_move_probability lies within [0.05, 0.95].
C18_ProbabilityInRange ==
    last_call.op \in {"calculate_probability", "calculate_move_probability"} =>
        /\ last_call.returned >= (5 * PROB_ONE) \div 100
        /\ last_call.returned <= (95 * PROB_ONE) \div 100

\* calculate_move_probability of a non-capturing pawn move to d4 with the
\* largest stake returned 0.95: zone VeryHigh, 0.9 + 0.3 + 0.05 cut to the top.
C18_Witness ==
    /\ last_call.op = "calculate_move_probability"
    /\ last_call.piece_type = "pawn"
    /\ ~last_call.is_capture
    /\ ~last_call.is_entangled
    /\ last_call.stake_amount > 100
    /\ last_call.to_position = <<"d", "4">>
    /\ last_call.returned = (95 * PROB_ONE) \div 100

\* The place of a zone in the order VeryLow, Low, Medium, High, VeryHigh.
ZoneRank(zone) == CHOOSE i \in DOMAIN ProbabilityZone : ProbabilityZone[i] = zone

\* C19: for every piece type and stake, determine_probability_zone with
\* is_capture = true returns the zone one step closer to VeryLow than the
\* piece type's base zone, a base zone of VeryLow staying VeryLow.
C19_CaptureShift ==
    (last_call.op = "determine_probability_zone" /\ last_call.is_capture) =>
        ZoneRank(last_call.returned) = Max(ZoneRank(base_zone(last_call.piece_type)) - 1, 1)

\* A capture by a pawn (base zone High) with a stake above 50 got Medium.
C19_Witness ==
    /\ last_call.op = "determine_probability_zone"
    /\ last_call.piece_type = "pawn"
    /\ last_call.is_capture
    /\ last_call.stake_amount > 50
    /\ last_call.returned = "Medium"

\* C20: a stake above 50 shifts the zone one step toward VeryHigh (ceiling at
\* VeryHigh) whatever is_capture is: the zone returned for a stake above 50 is
\* one step above the zone the same call returns for a stake of 50 or less.
C20_StakeShift ==
    (last_call.op = "determine_probability_zone" /\ last_call.stake_amount > 50) =>
        \A low \in {stake \in StakeAmounts : stake <= 50} :
            ZoneRank(last_call.returned)
              = Min(ZoneRank(determine_probability_zone(last_call.piece_type,
                                                        last_call.is_capture, low)) + 1,
                    Len(ProbabilityZone))

\* The positions in the basis set of a state.
BasisSet(state) == {state.basis_states[i] : i \in DOMAIN state.basis_states}

\* C30: apply_interference returns an error whenever position1 or position2
\* is absent from the state's basis set, and then the state's amplitudes,
\* basis states and entanglements are unchanged; when both are present it
\* succeeds and the basis states are unchanged (only amplitudes change).
C30_InterferenceErrors ==
    [][last_call'.op = "apply_interference" =>
          /\ last_call'.ok <=> (/\ last_call'.position1 \in BasisSet(states["A"])
                                /\ last_call'.position2 \in BasisSet(states["A"]))
          /\ ~last_call'.ok => states'["A"] = states["A"]
          /\ last_call'.ok =>
                /\ states'["A"].basis_states = states["A"].basis_states
                /\ states'["A"].entanglements = states["A"].entanglements
                /\ Len(states'["A"].amplitudes) = Len(states["A"].amplitudes)]_vars

\* apply_interference(e4, e5) has failed on a state whose only basis state is
\* e4, and the state is as it was built: e4 with amplitude 1.
C30_Witness ==
    /\ last_call.op = "apply_interference"
    /\ ~last_call.ok
    /\ last_call.position1 = e4
    /\ last_call.position2 = e5
    /\ states["A"] = new(e4)

\* The active entangled pairs of the player `is_white`: those with a square on
\* which a piece of that colour stands.
PairsOf(is_white) ==
    {i \in DOMAIN entanglements :
        \/ (is_some(get_piece(CurrentBoard, entanglements[i].position1))
               /\ get_piece(CurrentBoard, entanglements[i].position1).color = is_white)
        \/ (is_some(get_piece(CurrentBoard, entanglements[i].position2))
               /\ get_piece(CurrentBoard, entanglements[i].position2).color = is_white)}

\* C29: the number of active entangled pairs of one player never exceeds
\* max_pairs_per_player (3 by default): an Entangle by a player who holds 3
\* pairs does not add a fourth.
C29_EntangledPairsCap ==
    \A is_white \in BOOLEAN :
        Cardinality(PairsOf(is_white)) <= quantum_rules.entanglement.max_pairs_per_player

\* No square listed in `positions` is a square of an active superposition.
NoneSuperposed(positions) ==
    \A i \in DOMAIN positions : \A s \in superpositions :
        s.position1 # positions[i] /\ s.position2 # positions[i]

\* C28: a Measure request is always accepted (never InvalidMove), and a
\* Measure whose positions include none that is part of an active
\* superposition (the empty list included) leaves the board's pieces, the
\* superposition set and the entanglement list unchanged.
C28_MeasureNoOp ==
    \A positions \in SplitMeasureInputs :
        \A o \in ExecuteMeasure(Engine, quantum_rules, positions) :
            /\ o.returned = "Success"
            /\ NoneSuperposed(positions) =>
                  /\ o.board.pieces = pieces
                  /\ o.superpositions = superpositions
                  /\ o.entanglements = entanglements

\* Measure of d4 returned Success while a superposition is active: it is
\* still there, and d4 is not one of its squares.
C28_Witness ==
    /\ applied = [kind |-> "Measure", positions |-> <<d4>>]
    /\ result = "Success"
    /\ superpositions # {}
    /\ NoneSuperposed(<<d4>>)

\* What every pawn move has in common, whichever way the pawn faces: at most
\* one file sideways, one or two ranks along the board, two only straight.
PawnShape(from, to) ==
    LET dx == Abs(to.x - from.x)
        dy == Abs(to.y - from.y)
    IN  /\ dx <= 1
        /\ dy \in {1, 2}
        /\ dy = 2 => dx = 0

\* C24: a pawn move that is_valid_classical_move accepts has a pawn's
\* geometry: at most one file sideways and one or two ranks along the
\* board, two ranks only straight ahead. (This is the part of the pawn rule
\* that holds whichever way the pawn faces; a sideways, backwards or
\* arbitrary relocation breaks it or its single-step part.)
C24_PawnGeometry ==
    (/\ last_call.op = "is_valid_classical_move"
     /\ last_call.piece.piece_type = "Pawn"
     /\ last_call.returned)
    => PawnShape(last_call.from, last_call.to)

\* The squares strictly between two squares of one rank, file or diagonal.
Between(from, to) ==
    IF from.x = to.x \/ from.y = to.y
       \/ Abs(to.x - from.x) = Abs(to.y - from.y)
    THEN {p \in AllPositions \ {from, to} :
            /\ Min(from.x, to.x) <= p.x /\ p.x <= Max(from.x, to.x)
            /\ Min(from.y, to.y) <= p.y /\ p.y <= Max(from.y, to.y)
            /\ (p.x - from.x) * (to.y - from.y) = (p.y - from.y) * (to.x - from.x)}
    ELSE {}

\* C25: is_valid_classical_move accepts no move onto a square holding a
\* piece of the mover's colour and no bishop, rook or queen move with an
\* occupied square strictly between origin and destination; the squares its
\* path check inspects are squares of the board other than origin and
\* destination.
C25_DestinationAndPath ==
    last_call.op = "is_valid_classical_move" =>
        /\ last_call.returned =>
              ~(/\ is_some(get_piece(CurrentBoard, last_call.to))
                /\ get_piece(CurrentBoard, last_call.to).color = last_call.piece.color)
        /\ (last_call.returned
             /\ last_call.piece.piece_type \in {"Bishop", "Rook", "Queen"}) =>
              \A p \in Between(last_call.from, last_call.to) :
                  ~is_some(get_piece(CurrentBoard, p))
        /\ last_call.inspected \subseteq (AllPositions \ {last_call.from, last_call.to})

\* The queen on d4 was allowed to take the knight on f4, next to it but one:
\* the path check inspected e4 and nothing else.
C25_Witness ==
    /\ pieces = CrowdedPieces
    /\ last_call.op = "is_valid_classical_move"
    /\ last_call.piece = WhiteQueen
    /\ last_call.from = d4
    /\ last_call.to = f4
    /\ last_call.returned
    /\ last_call.inspected = {Position(4, 3)}

\* A legal classical move: one that classical validation accepts and that,
\* for a pawn, has the shape of a pawn move.
LegalClassicalMove(board, piece, from, to) ==
    /\ is_valid_classical_move(board, piece, from, to)
    /\ piece.piece_type = "Pawn" => PawnShape(from, to)

\* Some piece of the other colour has a legal classical move onto `square`.
Attacked(board, square, is_white) ==
    \E from \in AllPositions :
        LET piece == get_piece(board, from)
        IN  /\ is_some(piece)
            /\ piece.color # is_white
            /\ LegalClassicalMove(board, piece, from, square)

\* The king of `is_white` stands on an attacked square.
InCheck(board, is_white) ==
    \E square \in AllPositions :
        IsKingOf(board, square, is_white) /\ Attacked(board, square, is_white)

\* The king of `is_white` is in check and no legal classical move of a piece
\* of that colour, tried on a copy of the board, leaves it out of check.
Mated(is_white) ==
    /\ InCheck(CurrentBoard, is_white)
    /\ \A from \in AllPositions, to \in AllPositions :
          LET piece == get_piece(CurrentBoard, from)
          IN  (/\ is_some(piece)
               /\ piece.color = is_white
               /\ LegalClassicalMove(CurrentBoard, piece, from, to))
              => InCheck(set_piece(remove_piece(CurrentBoard, from), to, piece), is_white)

\* C22: after update_game_state has run on a position in which a colour is
\* in check and has no legal classical move that leaves its king out of
\* check, the call has returned GameOver and game_result is the other
\* colour's win: BlackWins if White is mated, WhiteWins if Black is mated.
C22_CheckmateResult ==
    result # "None" =>
        /\ Mated(TRUE) => (result = "GameOver" /\ game_result = "BlackWins")
        /\ Mated(FALSE) => (result = "GameOver" /\ game_result = "WhiteWins")

\* No pawn of either colour is on the board.
NoPawns ==
    CountPieces(CurrentBoard, "Pawn", TRUE) + CountPieces(CurrentBoard, "Pawn", FALSE) = 0

\* The same on the positions without a pawn.
CheckmateResultWithoutPawns ==
    result # "None" =>
        \A is_white \in BOOLEAN :
            (Mated(is_white) /\ NoPawns) =>
                /\ result = "GameOver"
                /\ game_result = (IF is_white THEN "BlackWins" ELSE "WhiteWins")

\* A mated colour without a pawn was declared mated: the rook on a8 and the
\* king on c2 mate the king on a1, whose side still has a bishop and a knight.
CheckmateWithoutPawnsReached ==
    /\ result = "GameOver"
    /\ game_result = "WhiteWins"
    /\ Mated(FALSE)
    /\ get_piece(CurrentBoard, a8) = WhiteRook
    /\ get_piece(CurrentBoard, f6) = BlackBishop
    /\ NoPawns

\* The squares holding a piece that is not a king.
NonKings == {p \in AllPositions :
               /\ is_some(get_piece(CurrentBoard, p))
               /\ get_piece(CurrentBoard, p).piece_type # "King"}

\* King against king, or king and one knight or bishop against a lone king.
InsufficientMaterial ==
    \/ NonKings = {}
    \/ /\ Cardinality(NonKings) = 1
       /\ \A p \in NonKings : get_piece(CurrentBoard, p).piece_type \in {"Knight", "Bishop"}

\* C23: is_draw_by_insufficient_material returns true exactly when the
\* material is king against king or king and a single knight or bishop
\* against a lone king; and update_game_state on a board holding only the
\* two kings sets game_result to Draw.
C23_InsufficientMaterial ==
    /\ last_call.op = "is_draw_by_insufficient_material" =>
          (last_call.returned <=> InsufficientMaterial)
    /\ (result # "None" /\ NonKings = {}) => game_result = "Draw"

\* Both calls were made on the board of the two kings alone.
C23_Witness ==
    /\ NonKings = {}
    /\ last_call.op = "is_draw_by_insufficient_material"
    /\ last_call.returned
    /\ result = "GameOver"
    /\ game_result = "Draw"

\* The position set of a colour's king: the square it stands on and both
\* squares of every active superposition that carries it.
KingPositionSet(is_white) ==
    {square \in AllPositions : IsKingOf(CurrentBoard, square, is_white)}
    \cup UNION {{s.position1, s.position2} :
                  s \in {t \in superpositions :
                            t \in DOMAIN in_flight
                            /\ in_flight[t] = Piece("King", is_white)}}

\* C21: is_king_in_check reports a colour in check exactly when a piece of
\* the other colour has a legal classical move onto a square of that
\* colour's king position set; so a king that has been Split is in check
\* whenever one of its two superposed squares is attacked.
C21_CheckOverPositionSet ==
    \A is_white \in BOOLEAN :
        is_king_in_check(superpositions, CurrentBoard, is_white)
        <=> \E square \in KingPositionSet(is_white) :
                Attacked(CurrentBoard, square, is_white)

\* The superpositions on whose squares a piece of the colour stands: what
\* the limit max_per_player is compared with.
PlayerSuperpositions(is_white) ==
    {s \in superpositions :
        \E square \in {s.position1, s.position2} :
            /\ is_some(get_piece(CurrentBoard, square))
            /\ get_piece(CurrentBoard, square).color = is_white}

\* C26: with allow_king_superposition = false every Split that names a king
\* returns InvalidMove, whatever the origin and the targets, and no active
\* superposition carries a king; with allow_king_superposition = true a
\* Split that names a king is rejected only if the player's superposition
\* limit is reached or one of the two targets is not a legal classical move.
C26_KingSplit ==
    /\ ~quantum_rules.superposition.allow_king_superposition =>
          \A s \in DOMAIN in_flight : in_flight[s].piece_type # "King"
    /\ \A piece \in {WhiteKing, BlackKing}, from \in {a1, c2, b5},
          to_primary \in SplitTargets, to_secondary \in SplitTargets :
          LET rejected ==
                  \A o \in ExecuteSplit(Engine, quantum_rules, piece, from, to_primary,
                                         to_secondary, 60) :
                      o.returned = "InvalidMove"
          IN  IF quantum_rules.superposition.allow_king_superposition
              THEN rejected =>
                     \/ Cardinality(PlayerSuperpositions(piece.color))
                            >= quantum_rules.superposition.max_per_player
                     \/ ~is_valid_classical_move(CurrentBoard, piece, from, to_primary)
                     \/ ~is_valid_classical_move(CurrentBoard, piece, from, to_secondary)
              ELSE rejected

\* Kings may be split, and the white king was: it is in flight over b1 and b2.
C26_Witness ==
    /\ quantum_rules.superposition.allow_king_superposition
    /\ result = "Success"
    /\ applied.kind = "Split"
    /\ applied.piece = WhiteKing
    /\ \E s \in DOMAIN in_flight :
          in_flight[s] = WhiteKing /\ {s.position1, s.position2} = {b1, b2}

\* C27: while allow_while_in_check is false, execute_move accepts no Split
\* of a piece whose colour's king is in check when the request is made.
C27_NoSplitInCheck ==
    [][~(/\ Accepted("Split")
         /\ ~quantum_rules.superposition.allow_while_in_check
         /\ InCheck(CurrentBoard, applied'.piece.color))]_vars

\* The colour is not in check and has no legal classical move that leaves
\* its king out of check.
Stalemated(is_white) ==
    /\ ~InCheck(CurrentBoard, is_white)
    /\ \A from \in AllPositions, to \in AllPositions :
          LET piece == get_piece(CurrentBoard, from)
          IN  (/\ is_some(piece)
               /\ piece.color = is_white
               /\ LegalClassicalMove(CurrentBoard, piece, from, to))
              => InCheck(set_piece(remove_piece(CurrentBoard, from), to, piece), is_white)

\* C31: is_stalemate holds for a colour exactly when that colour is not in
\* check and has no legal move; after update_game_state has run on such a
\* position game_result is Draw; and a Draw that is not one by insufficient
\* material is recorded only when some colour is stalemated, hence not in
\* check.
C31_Stalemate ==
    /\ \A is_white \in BOOLEAN :
          is_stalemate(superpositions, quantum_rules, CurrentBoard, is_white)
          <=> Stalemated(is_white)
    /\ result # "None" =>
          /\ (\E is_white \in BOOLEAN : Stalemated(is_white)) => game_result = "Draw"
          /\ (game_result = "Draw" /\ ~InsufficientMaterial) =>
                \E is_white \in BOOLEAN : Stalemated(is_white)

\* The same on the positions without a pawn.
StalemateWithoutPawns == NoPawns => C31_Stalemate

\* A stalemate without pawns and with material to spare was declared a draw:
\* the black king on a1 cannot move and the other side has more than one
\* minor piece.
StalemateWithoutPawnsReached ==
    /\ NoPawns
    /\ result = "GameOver"
    /\ game_result = "Draw"
    /\ Stalemated(FALSE)
    /\ ~InsufficientMaterial

\* C32: every active Superposition has a probability strictly between 0 and
\* 1 (probabilities are in hundredths): a Split whose probability is not
\* leaves no Superposition behind.
C32_ProbabilityInOpenInterval ==
    \A s \in superpositions : 0 < s.probability /\ s.probability < 100

\* C33: add_player with a preference for a colour whose slot is taken,
\* while the other colour's slot is open, returns Ok with the open colour
\* and seats the player there.
C33_OpenColourAssigned ==
    [][\A color \in Color :
          LET other == IF color = "White" THEN "Black" ELSE "White"
              taken == IF color = "White" THEN game.white_player ELSE game.black_player
              open == IF color = "White" THEN game.black_player ELSE game.white_player
          IN  (/\ last_call'.op = "add_player"
               /\ last_call'.color_preference = color
               /\ taken # NoPlayer
               /\ open = NoPlayer)
              => last_call'.returned = Ok(other)]_vars

\* No end_game call has been made on the GameState.
OnlyPlayersAdded == game.result_description = None

\* C34: as long as only add_player has been called on a new GameState,
\* status is InProgress if both slots are filled and Waiting otherwise; an
\* add_player never changes a slot that is filled; and an add_player that
\* returns Err leaves the GameState as it was.
C34_StatusAndSlots ==
    [][last_call'.op = "add_player" =>
          /\ OnlyPlayersAdded =>
                game'.status = (IF game'.white_player # NoPlayer /\ game'.black_player # NoPlayer
                                THEN "InProgress" ELSE "Waiting")
          /\ game.white_player # NoPlayer => game'.white_player = game.white_player
          /\ game.black_player # NoPlayer => game'.black_player = game.black_player
          /\ ~last_call'.returned.ok => game' = game]_vars

\* Bob asked for a seat at a full table: Err, and the game goes on between
\* the two players seated before.
C34_Witness ==
    /\ OnlyPlayersAdded
    /\ last_call.op = "add_player"
    /\ last_call.returned = Err("Game is full")
    /\ game.status = "InProgress"
    /\ game.white_player # NoPlayer
    /\ game.black_player # NoPlayer
    /\ game.total_stake = game.white_player.stake_amount + game.black_player.stake_amount

\* C38: once is_game_over() is true, no add_player or end_game call makes it
\* false again.
C38_GameOverAbsorbing ==
    [][is_game_over(game) => is_game_over(game')]_vars

\* The pieces of a colour: those on the squares `placed` and one for every
\* superposition of `sups` that carries, according to `carried`, a piece of
\* that colour.
PieceCount(placed, sups, carried, is_white) ==
    Cardinality({i \in Cells : is_some(placed[i]) /\ placed[i].color = is_white})
    + Cardinality({s \in sups : s \in DOMAIN carried /\ carried[s].color = is_white})

\* C35: no execute_move call increases the number of pieces of a colour,
\* counting the pieces on the board and one piece for every active
\* Superposition made by a Split of that colour.
C35_PieceConservation ==
    [][\A is_white \in BOOLEAN :
          PieceCount(pieces', superpositions', in_flight', is_white)
             <= PieceCount(pieces, superpositions, in_flight, is_white)]_vars

\* C36: when a call sets game_result to Draw on a position in which no
\* colour is stalemated, that is a Draw by insufficient material, no active
\* Superposition carries a piece other than a king.
C36_DrawCountsSuperposedMaterial ==
    [][(/\ game_result # "Draw"
        /\ game_result' = "Draw"
        /\ \A is_white \in BOOLEAN :
              ~is_stalemate(superpositions', quantum_rules', Board(pieces', quantum'),
                            is_white))
       => \A s \in superpositions' :
              s \in DOMAIN in_flight' => in_flight'[s].piece_type = "King"]_vars

\* C37: in every QuantumState of the store the weights handed to the
\* weighted draw are acceptable, so that neither measure() nor
\* measure_with_entanglement() can fail.
C37_MeasureNeverFails ==
    \A id \in DOMAIN states :
        /\ WeightedIndexOk(probabilities(states[id]))
        /\ \A m \in measure(states[id]) \cup measure_with_entanglement(states[id], states) :
              m.returned # Panic

\* C39: both squares of every active Superposition carry the board's
\* Superposition mark.
C39_SuperposedSquaresMarked ==
    \A s \in superpositions :
        /\ quantum[ScanIndex(s.position1)] = "Superposition"
        /\ quantum[ScanIndex(s.position2)] = "Superposition"

====
